---- MODULE Spec2Model ----
(***************************************************************************)
(* Plugin lifecycle manager (PluginManagerService): the plugin state       *)
(* store, the component registrar / unregistrar and the load / unload /    *)
(* register operations, against the host runtime's shared registries.      *)
(*                                                                         *)
(* A call is a frame that runs in segments: a segment is the code between  *)
(* two awaits.  Spec runs every call to completion before the next one     *)
(* starts; SpecConc lets a second call start at any await of the first.    *)
(* SpecRegistry is the registry client: the catalog requests, the cache    *)
(* they go through and the passing of time.  SpecPath is the computation   *)
(* of install paths from plugin names.  SpecInstall is the installer:      *)
(* installs from the registry (npm or git) and from local bundles on a     *)
(* disk, with every step of a call able to throw and every external        *)
(* command able to never complete.  SpecLoadInstalled installs without     *)
(* faults and then loads what was installed into the lifecycle manager.    *)
(***************************************************************************)
EXTENDS Integers, Sequences, FiniteSets, TLC

\* ------------------------------------------------------------------ bounds
MaxLoads == 2      \* load calls that get past the guards, per behaviour
MaxRegistered == 2 \* plugins registered after construction, per behaviour
MaxClock == 0      \* Date.now() saturates here
MaxThrowAt == 2    \* the host register calls of one load that may throw: the first ones
MaxHours == 2      \* SpecRegistry: the clock runs up to this many cache lifetimes
MaxNameLen == 2    \* SpecPath: plugin names have up to this many characters

None == "none"

\* ------------------------------------------------- plugin objects (inputs)
\* The plugin objects handed to the manager.  "core" is in runtime.plugins
\* when the manager is constructed; p1 redefines the original action a0;
\* p2 and p3 declare the same provider name and the same service type;
\* p1 and p2 listen to the same event with their own handlers; p3 declares
\* the original service type s0.
Catalog ==
  [ core |-> [ actions    |-> << "a0" >>,
               providers  |-> << "pr0" >>,
               evaluators |-> << "ev0" >>,
               events     |-> << >>,
               services   |-> << "s0" >>,
               init       |-> FALSE ],
    p1   |-> [ actions    |-> << "a0", "a1" >>,
               providers  |-> << "pr1" >>,
               evaluators |-> << "ev1" >>,
               events     |-> << [event |-> "e1", handlers |-> << "h1" >>] >>,
               services   |-> << "s1" >>,
               init       |-> TRUE ],
    p2   |-> [ actions    |-> << "a2" >>,
               providers  |-> << "prS" >>,
               evaluators |-> << >>,
               events     |-> << [event |-> "e1", handlers |-> << "h2" >>] >>,
               services   |-> << "sS" >>,
               init       |-> FALSE ],
    p3   |-> [ actions    |-> << >>,
               providers  |-> << "prS" >>,
               evaluators |-> << "ev3" >>,
               events     |-> << >>,
               services   |-> << "sS", "s0" >>,
               init       |-> FALSE ] ]

PluginNames == DOMAIN Catalog
OriginalPluginNames == { "core" }
DynamicPluginNames == PluginNames \ OriginalPluginNames

\* createUniqueUuid(runtime, name): a deterministic, injective function of
\* the plugin name for a fixed agent.
createUniqueUuid(name) == "uuid-" \o name
PluginIds == { createUniqueUuid(n) : n \in PluginNames }
UnknownId == "uuid-unknown"

ServiceTypes == { "s0", "s1", "sS" }
EventNames == { "e1" }

\* ----------------------------------------------------------------- helpers
Range(s) == { s[i] : i \in 1..Len(s) }
Min(a, b) == IF a < b THEN a ELSE b

\* Array.prototype.findIndex on a name; 0 stands for -1.
FindIndex(list, name) ==
  IF \E i \in 1..Len(list) : list[i].name = name
  THEN CHOOSE i \in 1..Len(list) :
         /\ list[i].name = name
         /\ \A j \in 1..(i-1) : list[j].name # name
  ELSE 0

\* Array.prototype.splice(index, 1)
Splice(list, i) == [ j \in 1..(Len(list)-1) |-> IF j < i THEN list[j] ELSE list[j+1] ]

\* Array.prototype.filter(h => h !== handler)
RECURSIVE FilterOut(_, _)
FilterOut(list, h) ==
  IF list = << >> THEN << >>
  ELSE IF Head(list) = h THEN FilterOut(Tail(list), h)
       ELSE << Head(list) >> \o FilterOut(Tail(list), h)

\* --------------------------------------------------- the host runtime mock
\* registerAction / registerProvider / registerEvaluator of the host: push.
HostRegister(list, name, owner) == Append(list, [name |-> name, owner |-> owner])

\* registerEvent(event, handler): append the handler to the event's list.
HostRegisterEvent(events, event, handler) ==
  [events EXCEPT ![event] = Append(@, handler)]

\* A variant of HostUnregisterEvent that drops every handler of the event:
\* C10 fails with it.
HostUnregisterEventAll(events, event, handler) ==
  [events EXCEPT ![event] = << >>]

\* unregisterEvent(event, handler): drop that handler reference from the
\* event's list (an emptied list is the deleted map entry).
HostUnregisterEvent(events, event, handler) ==
  [events EXCEPT ![event] = FilterOut(@, handler)]

\* The host registries as they are when the manager is constructed.
InitRuntime ==
  [ actions    |-> << [name |-> "a0",  owner |-> "host"] >>,
    providers  |-> << [name |-> "pr0", owner |-> "host"] >>,
    evaluators |-> << [name |-> "ev0", owner |-> "host"] >>,
    events     |-> [ e \in EventNames |-> << >> ],
    services   |-> [ t \in ServiceTypes |-> IF t = "s0" THEN "host" ELSE None ],
    plugins    |-> << "core" >> ]

\* storeOriginalComponents: the names captured at construction.
originalActions    == { InitRuntime.actions[i].name : i \in 1..Len(InitRuntime.actions) }
originalProviders  == { InitRuntime.providers[i].name : i \in 1..Len(InitRuntime.providers) }
originalEvaluators == { InitRuntime.evaluators[i].name : i \in 1..Len(InitRuntime.evaluators) }
originalServices   == { t \in ServiceTypes : InitRuntime.services[t] # None }
originalPlugins    == Range(InitRuntime.plugins)

\* A key the plugins map does not hold.
NoState == [ status |-> "ABSENT" ]
Has(pl, id) == id \in DOMAIN pl /\ pl[id].status # "ABSENT"

\* An unset timestamp (undefined).
NoTime == -1

EmptyComponents ==
  [ actions |-> {}, providers |-> {}, evaluators |-> {}, services |-> {},
    eventHandlers |-> << >> ]

\* initializeRegistry: one LOADED record per original plugin, tracking the
\* names it declares.
OriginalState(n) ==
  [ name |-> n, status |-> "LOADED", plugin |-> n,
    createdAt |-> 0, loadedAt |-> 0, unloadedAt |-> NoTime, error |-> None,
    components |-> [ actions    |-> Range(Catalog[n].actions),
                     providers  |-> Range(Catalog[n].providers),
                     evaluators |-> Range(Catalog[n].evaluators),
                     services   |-> Range(Catalog[n].services),
                     eventHandlers |-> << >> ] ]

initializeRegistry ==
  [ id \in PluginIds |->
      IF \E n \in originalPlugins : createUniqueUuid(n) = id
      THEN OriginalState(CHOOSE n \in originalPlugins : createUniqueUuid(n) = id)
      ELSE NoState ]

\* ------------------------------------------------------ plugin state store
\* updatePluginState(id, update): replace the record by {...existing, ...update}.
updatePluginState(pl, id, update) ==
  IF ~Has(pl, id) THEN pl
  ELSE LET existing == pl[id]
       IN [pl EXCEPT ![id] =
             [ fld \in DOMAIN existing |->
                 IF fld \in DOMAIN update THEN update[fld] ELSE existing[fld] ]]

\* trackComponentRegistration: append one audit record.
trackComponentRegistration(cr, pluginId, componentType, componentName, now) ==
  [cr EXCEPT ![pluginId] =
     Append(@, [ pluginId |-> pluginId, componentType |-> componentType,
                 componentName |-> componentName, timestamp |-> now ])]

\* Array.from(this.plugins.values()).find(p => p.plugin === plugin): the id
\* of the record holding this plugin object, None when there is none.
FindStateId(pl, plugin) ==
  IF \E id \in PluginIds : Has(pl, id) /\ pl[id].plugin = plugin
  THEN CHOOSE id \in PluginIds : Has(pl, id) /\ pl[id].plugin = plugin
  ELSE None

\* ----------------------------------------------- registration instructions
\* The host calls registerPluginComponents makes for a plugin object, in the
\* order of the code: actions, providers, evaluators, event handlers,
\* services.  An "eventKey" item is the creation of the event's handler set.
Item(kind, name, handler) == [kind |-> kind, name |-> name, handler |-> handler]

NamedItems(kind, names) == [ i \in 1..Len(names) |-> Item(kind, names[i], None) ]

RECURSIVE EventItems(_)
EventItems(evs) ==
  IF evs = << >> THEN << >>
  ELSE LET e == Head(evs)
       IN << Item("eventKey", e.event, None) >>
          \o [ i \in 1..Len(e.handlers) |-> Item("eventHandler", e.event, e.handlers[i]) ]
          \o EventItems(Tail(evs))

\* A variant of ItemsOf that starts the services first: C19 fails with it.
ItemsOfServicesFirst(d) ==
  NamedItems("service", d.services)
  \o NamedItems("action", d.actions) \o NamedItems("provider", d.providers)
  \o NamedItems("evaluator", d.evaluators) \o EventItems(d.events)

ItemsOf(d) ==
  NamedItems("action", d.actions) \o NamedItems("provider", d.providers)
  \o NamedItems("evaluator", d.evaluators) \o EventItems(d.events)
  \o NamedItems("service", d.services)

RegItemsTable == [ n \in PluginNames |-> ItemsOf(Catalog[n]) ]
RegItems(plugin) == RegItemsTable[plugin]

\* ------------------------------------------------------------------ frames
\* What the host and the plugin do in one call: whether the init hook
\* throws, which host register call throws (0: none), which services fail
\* to start, whether stop hooks throw, whether unregisterEvent throws.
NoFault ==
  [ initThrows |-> FALSE, regThrowAt |-> 0, startFail |-> {},
    stopThrows |-> FALSE, unregThrows |-> FALSE ]

\* The fault plans that make a difference for a plugin object.
LoadPlans(plugin) ==
  LET items == RegItems(plugin)
  IN { NoFault }
     \cup { [NoFault EXCEPT !.initThrows = TRUE] : x \in { y \in {1} : Catalog[plugin].init } }
     \cup { [NoFault EXCEPT !.regThrowAt = k] :
              k \in { j \in 1..Min(MaxThrowAt, Len(items)) :
                        items[j].kind \in {"action", "provider", "evaluator", "eventHandler"} } }
     \cup { [NoFault EXCEPT !.startFail = {t}] : t \in Range(Catalog[plugin].services) }

UnloadPlans ==
  { NoFault, [NoFault EXCEPT !.stopThrows = TRUE], [NoFault EXCEPT !.unregThrows = TRUE] }

NewFrame(op, id, force, plan) ==
  [ op |-> op, id |-> id, force |-> force, plan |-> plan,
    pc |-> "start", k |-> 0, plugin |-> None, sid |-> None,
    res |-> None, noop |-> FALSE, err |-> None,
    emitted |-> << >>, initRan |-> 0, stops |-> << >> ]

Step(w, f, susp) == [w |-> w, f |-> f, susp |-> susp]
Return(w, f, res) == Step(w, [f EXCEPT !.pc = "done", !.res = res], TRUE)
Emit(f, ev) == [f EXCEPT !.emitted = Append(@, ev)]

\* ---------------------------------------------------------------- loadPlugin
\* The message of the error loadPlugin throws for a status it cannot load
\* from.
NotReady(status) == "not ready to load (status: " \o status \o ")"

\* A variant of LoadStart that records the rejection in the plugin record
\* before it throws InvalidState: C12 fails with it.
LoadStartRecordingRejection(w, f) ==
  LET pluginState == IF Has(w.plugins, f.id) THEN w.plugins[f.id] ELSE NoState
  IN IF ~Has(w.plugins, f.id)
       THEN Return(w, f, "NotFound")
     ELSE IF pluginState.status = "LOADED" /\ ~f.force
       THEN Return(w, [f EXCEPT !.noop = TRUE], "ok")
     ELSE IF pluginState.status \notin {"READY", "UNLOADED"} /\ ~f.force
       THEN Return([w EXCEPT !.plugins = updatePluginState(@, f.id,
                                [error |-> NotReady(pluginState.status)])],
                   [f EXCEPT !.err = NotReady(pluginState.status)], "InvalidState")
     ELSE IF pluginState.plugin = None
       THEN Return(w, f, "MissingInstance")
     ELSE Step(w, [Emit(f, "plugin:building") EXCEPT
                     !.pc = "init", !.plugin = pluginState.plugin], TRUE)

\* A variant of LoadStart whose status test forgets force: C11 fails with it.
LoadStartForceless(w, f) ==
  LET pluginState == IF Has(w.plugins, f.id) THEN w.plugins[f.id] ELSE NoState
  IN IF ~Has(w.plugins, f.id)
       THEN Return(w, f, "NotFound")
     ELSE IF pluginState.status = "LOADED" /\ ~f.force
       THEN Return(w, [f EXCEPT !.noop = TRUE], "ok")
     ELSE IF pluginState.status \notin {"READY", "UNLOADED", "LOADED"}
       THEN Return(w, [f EXCEPT !.err = NotReady(pluginState.status)], "InvalidState")
     ELSE IF pluginState.plugin = None
       THEN Return(w, f, "MissingInstance")
     ELSE Step(w, [Emit(f, "plugin:building") EXCEPT
                     !.pc = "init", !.plugin = pluginState.plugin], TRUE)

\* A variant of LoadStart without the early return for a LOADED plugin: C8
\* fails with it.
LoadStartAgain(w, f) ==
  LET pluginState == IF Has(w.plugins, f.id) THEN w.plugins[f.id] ELSE NoState
  IN IF ~Has(w.plugins, f.id)
       THEN Return(w, f, "NotFound")
     ELSE IF pluginState.status \notin {"READY", "UNLOADED", "LOADED"} /\ ~f.force
       THEN Return(w, [f EXCEPT !.err = NotReady(pluginState.status)], "InvalidState")
     ELSE IF pluginState.plugin = None
       THEN Return(w, f, "MissingInstance")
     ELSE Step(w, [Emit(f, "plugin:building") EXCEPT
                     !.pc = "init", !.plugin = pluginState.plugin], TRUE)

\* The synchronous guards of loadPlugin, up to the first await.
LoadStart(w, f) ==
  LET pluginState == IF Has(w.plugins, f.id) THEN w.plugins[f.id] ELSE NoState
  IN IF ~Has(w.plugins, f.id)
       THEN Return(w, f, "NotFound")
     ELSE IF pluginState.status = "LOADED" /\ ~f.force
       THEN Return(w, [f EXCEPT !.noop = TRUE], "ok")
     ELSE IF pluginState.status \notin {"READY", "UNLOADED"} /\ ~f.force
       THEN Return(w, [f EXCEPT !.err = NotReady(pluginState.status)], "InvalidState")
     ELSE IF pluginState.plugin = None
       THEN Return(w, f, "MissingInstance")
     ELSE Step(w, [Emit(f, "plugin:building") EXCEPT
                     !.pc = "init", !.plugin = pluginState.plugin], TRUE)

\* Entry of registerPluginComponents: look the record up by plugin object.
EnterRegister(w, f) ==
  LET sid == FindStateId(w.plugins, f.plugin)
  IN IF sid = None
     THEN Step(w, [f EXCEPT !.pc = "catch", !.err = "state not found"], TRUE)
     ELSE Step(w, [f EXCEPT !.pc = "regCall", !.k = 1, !.sid = sid], FALSE)

\* plugin.init, when the plugin has one.
LoadInit(w, f) ==
  IF Catalog[f.plugin].init
  THEN Step(w, [f EXCEPT !.initRan = @ + 1,
                         !.pc = IF f.plan.initThrows THEN "catch" ELSE "register",
                         !.err = IF f.plan.initThrows THEN "init failed" ELSE None],
            TRUE)
  ELSE EnterRegister(w, f)

AddEventKey(components, event) ==
  [components EXCEPT !.eventHandlers =
     [ e \in DOMAIN @ \cup {event} |-> IF e \in DOMAIN @ THEN @[e] ELSE {} ]]

\* The call of the k-th host registration, up to its await.
RegCall(w, f) ==
  LET items == RegItems(f.plugin)
  IN IF f.k > Len(items)
     THEN \* this.runtime.plugins.push(plugin), then return to loadPlugin
          Step([w EXCEPT !.runtime.plugins = Append(@, f.plugin)],
               [f EXCEPT !.pc = "finish"], TRUE)
     ELSE LET it == items[f.k]
          IN IF it.kind = "eventKey"
             THEN Step([w EXCEPT !.plugins[f.sid].components = AddEventKey(@, it.name)],
                       [f EXCEPT !.k = @ + 1], FALSE)
             ELSE IF it.kind = "service"
             THEN Step(w, [f EXCEPT !.pc = "regResume"], TRUE)
             ELSE IF f.plan.regThrowAt = f.k
             THEN Step(w, [f EXCEPT !.pc = "catch", !.err = "register failed"], TRUE)
             ELSE Step(
               CASE it.kind = "action" ->
                      [w EXCEPT !.runtime.actions = HostRegister(@, it.name, f.plugin)]
                 [] it.kind = "provider" ->
                      [w EXCEPT !.runtime.providers = HostRegister(@, it.name, f.plugin)]
                 [] it.kind = "evaluator" ->
                      [w EXCEPT !.runtime.evaluators = HostRegister(@, it.name, f.plugin)]
                 [] it.kind = "eventHandler" ->
                      [w EXCEPT !.runtime.events = HostRegisterEvent(@, it.name, it.handler)],
               [f EXCEPT !.pc = "regResume"], TRUE)

\* A variant of RegResume without the try/catch around the start of a
\* service: C17 fails with it.
RegResumeStartUncaught(w, f) ==
  LET it == RegItems(f.plugin)[f.k]
      next == [f EXCEPT !.pc = "regCall", !.k = @ + 1]
      tracked(kind, name) ==
        trackComponentRegistration(w.componentRegistry, f.sid, kind, name, w.clock)
  IN CASE it.kind = "action" ->
            Step([w EXCEPT !.plugins[f.sid].components.actions = @ \cup {it.name},
                           !.componentRegistry = tracked("action", it.name)], next, FALSE)
       [] it.kind = "provider" ->
            Step([w EXCEPT !.plugins[f.sid].components.providers = @ \cup {it.name},
                           !.componentRegistry = tracked("provider", it.name)], next, FALSE)
       [] it.kind = "evaluator" ->
            Step([w EXCEPT !.plugins[f.sid].components.evaluators = @ \cup {it.name},
                           !.componentRegistry = tracked("evaluator", it.name)], next, FALSE)
       [] it.kind = "eventHandler" ->
            \* eventHandlers.get(eventName)!.add(...): a TypeError when the map
            \* has lost the key since it was created
            IF it.name \notin DOMAIN w.plugins[f.sid].components.eventHandlers
            THEN Step(w, [f EXCEPT !.pc = "catch", !.err = "TypeError"], TRUE)
            ELSE Step([w EXCEPT !.plugins[f.sid].components.eventHandlers[it.name] =
                                   @ \cup {it.handler},
                                !.componentRegistry = tracked("eventHandler", it.name)],
                      next, FALSE)
       [] it.kind = "service" ->
            IF it.name \in f.plan.startFail
            THEN Step(w, [f EXCEPT !.pc = "catch", !.err = "start failed"], TRUE)
            ELSE Step([w EXCEPT !.runtime.services[it.name] = f.plugin,
                                !.plugins[f.sid].components.services = @ \cup {it.name},
                                !.componentRegistry = tracked("service", it.name)],
                      next, FALSE)

\* After the await of the k-th registration: record the component in the
\* plugin's component set and in the audit trail.
RegResume(w, f) ==
  LET it == RegItems(f.plugin)[f.k]
      next == [f EXCEPT !.pc = "regCall", !.k = @ + 1]
      tracked(kind, name) ==
        trackComponentRegistration(w.componentRegistry, f.sid, kind, name, w.clock)
  IN CASE it.kind = "action" ->
            Step([w EXCEPT !.plugins[f.sid].components.actions = @ \cup {it.name},
                           !.componentRegistry = tracked("action", it.name)], next, FALSE)
       [] it.kind = "provider" ->
            Step([w EXCEPT !.plugins[f.sid].components.providers = @ \cup {it.name},
                           !.componentRegistry = tracked("provider", it.name)], next, FALSE)
       [] it.kind = "evaluator" ->
            Step([w EXCEPT !.plugins[f.sid].components.evaluators = @ \cup {it.name},
                           !.componentRegistry = tracked("evaluator", it.name)], next, FALSE)
       [] it.kind = "eventHandler" ->
            \* eventHandlers.get(eventName)!.add(...): a TypeError when the map
            \* has lost the key since it was created
            IF it.name \notin DOMAIN w.plugins[f.sid].components.eventHandlers
            THEN Step(w, [f EXCEPT !.pc = "catch", !.err = "TypeError"], TRUE)
            ELSE Step([w EXCEPT !.plugins[f.sid].components.eventHandlers[it.name] =
                                   @ \cup {it.handler},
                                !.componentRegistry = tracked("eventHandler", it.name)],
                      next, FALSE)
       [] it.kind = "service" ->
            IF it.name \in f.plan.startFail
            THEN Step(w, next, FALSE)        \* caught and logged
            ELSE Step([w EXCEPT !.runtime.services[it.name] = f.plugin,
                                !.plugins[f.sid].components.services = @ \cup {it.name},
                                !.componentRegistry = tracked("service", it.name)],
                      next, FALSE)

\* A variant of LoadFinish that emits plugin:loaded and leaves the record
\* as it is: C37 fails with it.
LoadFinishEmitOnly(w, f) ==
  Step(w, [Emit(f, "plugin:loaded") EXCEPT !.pc = "end"], TRUE)

\* After registerPluginComponents returned: the LOADED update and its event.
LoadFinish(w, f) ==
  Step([w EXCEPT !.plugins = updatePluginState(@, f.id,
                   [status |-> "LOADED", loadedAt |-> w.clock, error |-> None])],
       [Emit(f, "plugin:loaded") EXCEPT !.pc = "end"], TRUE)

\* A variant of LoadCatch that drops the message: C14 fails with it.
LoadCatchWithoutMessage(w, f) ==
  Step([w EXCEPT !.plugins = updatePluginState(@, f.id, [status |-> "ERROR"])],
       [Emit(f, "plugin:error") EXCEPT !.pc = "rethrow"], TRUE)

\* The catch block of loadPlugin.
LoadCatch(w, f) ==
  Step([w EXCEPT !.plugins = updatePluginState(@, f.id,
                   [status |-> "ERROR", error |-> f.err])],
       [Emit(f, "plugin:error") EXCEPT !.pc = "rethrow"], TRUE)

LoadMicro(w, f) ==
  CASE f.pc = "start"     -> LoadStart(w, f)
    [] f.pc = "init"      -> LoadInit(w, f)
    [] f.pc = "register"  -> EnterRegister(w, f)
    [] f.pc = "regCall"   -> RegCall(w, f)
    [] f.pc = "regResume" -> RegResume(w, f)
    [] f.pc = "finish"    -> LoadFinish(w, f)
    [] f.pc = "end"       -> Return(w, f, "ok")
    [] f.pc = "catch"     -> LoadCatch(w, f)
    [] f.pc = "rethrow"   -> Return(w, f, "raised")

\* -------------------------------------------------------------- unloadPlugin
\* The loops of unregisterPluginComponents over the declared actions,
\* providers or evaluators: a name outside the original set is spliced out
\* of the host list at its first index and deleted from the component set.
\* A variant of Removable that forgets the original sets: C1 fails with it.
RemovableWhateverItsName(name, index, originals) == index # 0

\* The two tests a declared name passes before it is removed: it is no
\* original name, and findIndex found it in the host list.
Removable(name, index, originals) == name \notin originals /\ index # 0

RECURSIVE RemoveComponents(_, _, _, _)
RemoveComponents(list, tracked, names, originals) ==
  IF names = << >> THEN [list |-> list, tracked |-> tracked]
  ELSE LET n == Head(names)
           index == FindIndex(list, n)
       IN IF Removable(n, index, originals)
          THEN RemoveComponents(Splice(list, index), tracked \ {n}, Tail(names), originals)
          ELSE RemoveComponents(list, tracked, Tail(names), originals)

\* The (event, handler) pairs of a plugin's eventHandlers map.
HandlerPairs(m) == UNION { { << e, h >> : h \in m[e] } : e \in DOMAIN m }

\* unregisterEvent for every tracked (event, handler) pair.
RECURSIVE UnregisterHandlers(_, _)
UnregisterHandlers(events, pairs) ==
  IF pairs = {} THEN events
  ELSE LET p == CHOOSE q \in pairs : TRUE
       IN UnregisterHandlers(HostUnregisterEvent(events, p[1], p[2]), pairs \ {p})

\* unregisterPluginComponents up to the services loop.
UnregisterSync(w, f) ==
  LET sid == FindStateId(w.plugins, f.plugin)
  IN IF sid = None
     THEN Step(w, [f EXCEPT !.pc = "finish"], TRUE)
     ELSE
       LET d  == Catalog[f.plugin]
           c  == w.plugins[sid].components
           ra == RemoveComponents(w.runtime.actions, c.actions, d.actions, originalActions)
           rp == RemoveComponents(w.runtime.providers, c.providers, d.providers,
                                  originalProviders)
           re == RemoveComponents(w.runtime.evaluators, c.evaluators, d.evaluators,
                                  originalEvaluators)
           w1 == [w EXCEPT !.runtime.actions = ra.list,
                           !.runtime.providers = rp.list,
                           !.runtime.evaluators = re.list,
                           !.plugins[sid].components.actions = ra.tracked,
                           !.plugins[sid].components.providers = rp.tracked,
                           !.plugins[sid].components.evaluators = re.tracked]
           pairs == HandlerPairs(c.eventHandlers)
       IN IF f.plan.unregThrows /\ pairs # {}
          THEN Step(w1, [f EXCEPT !.pc = "catch", !.sid = sid,
                                  !.err = "unregister failed"], TRUE)
          ELSE Step([w1 EXCEPT !.runtime.events = UnregisterHandlers(@, pairs),
                               !.plugins[sid].components.eventHandlers = << >>],
                    [f EXCEPT !.pc = "svc", !.k = 1, !.sid = sid], FALSE)

\* A variant of UnloadCatch that rethrows without the ERROR update: C13
\* fails with it.
UnloadCatchRethrowOnly(w, f) == Return(w, f, "raised")

\* The catch block of unloadPlugin.
UnloadCatch(w, f) ==
  Return([w EXCEPT !.plugins = updatePluginState(@, f.id,
                     [status |-> "ERROR", error |-> f.err])], f, "raised")

\* A variant of UnloadStart without the status test: C15 fails with it.
UnloadStartWhateverStatus(w, f) ==
  LET pluginState == IF Has(w.plugins, f.id) THEN w.plugins[f.id] ELSE NoState
  IN IF ~Has(w.plugins, f.id)
       THEN Return(w, f, "NotFound")
     ELSE IF \E p \in originalPlugins : p = pluginState.name
       THEN Return(w, f, "ProtectedPlugin")
     ELSE IF pluginState.plugin = None
       THEN UnloadCatch(w, [f EXCEPT !.err = "no plugin instance"])
     ELSE UnregisterSync(w, [f EXCEPT !.plugin = pluginState.plugin])

\* A variant of UnloadStart without the isOriginal test: C9 fails with it.
UnloadStartUnprotected(w, f) ==
  LET pluginState == IF Has(w.plugins, f.id) THEN w.plugins[f.id] ELSE NoState
  IN IF ~Has(w.plugins, f.id)
       THEN Return(w, f, "NotFound")
     ELSE IF pluginState.status # "LOADED"
       THEN Return(w, [f EXCEPT !.noop = TRUE], "ok")
     ELSE IF pluginState.plugin = None
       THEN UnloadCatch(w, [f EXCEPT !.err = "no plugin instance"])
     ELSE UnregisterSync(w, [f EXCEPT !.plugin = pluginState.plugin])

\* The synchronous guards of unloadPlugin and what follows up to the first
\* await.
UnloadStart(w, f) ==
  LET pluginState == IF Has(w.plugins, f.id) THEN w.plugins[f.id] ELSE NoState
  IN IF ~Has(w.plugins, f.id)
       THEN Return(w, f, "NotFound")
     ELSE IF pluginState.status # "LOADED"
       THEN Return(w, [f EXCEPT !.noop = TRUE], "ok")
     ELSE IF \E p \in originalPlugins : p = pluginState.name
       THEN Return(w, f, "ProtectedPlugin")
     ELSE IF pluginState.plugin = None
       THEN UnloadCatch(w, [f EXCEPT !.err = "no plugin instance"])
     ELSE UnregisterSync(w, [f EXCEPT !.plugin = pluginState.plugin])

\* A variant of DropPlugin that clears the audit trail of every plugin
\* (componentRegistry.clear() for .delete(id)): C7 fails with it.
DropPluginAndEveryTrail(w, plugin, sid) ==
  LET index == FindIndex([ i \in 1..Len(w.runtime.plugins) |-> [name |-> w.runtime.plugins[i]] ],
                         plugin)
  IN [w EXCEPT !.runtime.plugins = IF index # 0 THEN Splice(@, index) ELSE @,
               !.componentRegistry = [ id \in DOMAIN @ |-> << >> ]]

\* The end of unregisterPluginComponents: the plugin object is spliced out
\* of runtime.plugins at its first index and the plugin's audit trail is
\* deleted.
DropPlugin(w, plugin, sid) ==
  LET index == FindIndex([ i \in 1..Len(w.runtime.plugins) |-> [name |-> w.runtime.plugins[i]] ],
                         plugin)
  IN [w EXCEPT !.runtime.plugins = IF index # 0 THEN Splice(@, index) ELSE @,
               !.componentRegistry[sid] = << >>]

\* The k-th declared service: stop it unless its type is original or the
\* host has no instance; after the last one, the end of
\* unregisterPluginComponents.
UnloadSvc(w, f) ==
  LET services == Catalog[f.plugin].services
  IN IF f.k > Len(services)
     THEN Step(DropPlugin(w, f.plugin, f.sid), [f EXCEPT !.pc = "finish"], TRUE)
     ELSE LET serviceType == services[f.k]
          IN IF serviceType \notin originalServices /\ w.runtime.services[serviceType] # None
             THEN Step(w, [f EXCEPT !.pc = "svcResume",
                                    !.stops = Append(@, w.runtime.services[serviceType])],
                       TRUE)
             ELSE Step(w, [f EXCEPT !.k = @ + 1], FALSE)

\* A variant of UnloadSvcResume without the try/catch around service.stop():
\* C18 fails with it.
UnloadSvcResumeStopUncaught(w, f) ==
  LET serviceType == Catalog[f.plugin].services[f.k]
  IN IF f.plan.stopThrows
     THEN Step(w, [f EXCEPT !.pc = "catch", !.err = "stop failed"], FALSE)
     ELSE Step([w EXCEPT !.runtime.services[serviceType] = None,
                         !.plugins[f.sid].components.services = @ \ {serviceType}],
               [f EXCEPT !.pc = "svc", !.k = @ + 1], FALSE)

\* After the await of service.stop(), whether or not it threw.
UnloadSvcResume(w, f) ==
  LET serviceType == Catalog[f.plugin].services[f.k]
  IN Step([w EXCEPT !.runtime.services[serviceType] = None,
                    !.plugins[f.sid].components.services = @ \ {serviceType}],
          [f EXCEPT !.pc = "svc", !.k = @ + 1], FALSE)

\* After unregisterPluginComponents returned: the UNLOADED update and event.
UnloadFinish(w, f) ==
  Step([w EXCEPT !.plugins = updatePluginState(@, f.id,
                   [status |-> "UNLOADED", unloadedAt |-> w.clock])],
       [Emit(f, "plugin:unloaded") EXCEPT !.pc = "end"], TRUE)

UnloadMicro(w, f) ==
  CASE f.pc = "start"     -> UnloadStart(w, f)
    [] f.pc = "svc"       -> UnloadSvc(w, f)
    [] f.pc = "svcResume" -> UnloadSvcResume(w, f)
    [] f.pc = "finish"    -> UnloadFinish(w, f)
    [] f.pc = "end"       -> Return(w, f, "ok")
    [] f.pc = "catch"     -> UnloadCatch(w, f)

\* ------------------------------------------------------------ running calls
Micro(w, f) == IF f.op = "load" THEN LoadMicro(w, f) ELSE UnloadMicro(w, f)

\* One segment: from a resumption to the next await or to the return.
RECURSIVE Segment(_, _)
UntilAwait(r) == IF r.susp THEN r ELSE Segment(r.w, r.f)
Segment(w, f) == UntilAwait(Micro(w, f))

\* A whole call with nothing else running: segment after segment.
RECURSIVE RunCall(_, _)
UntilReturn(r) == IF r.f.pc = "done" THEN r ELSE RunCall(r.w, r.f)
RunCall(w, f) == UntilReturn(Segment(w, f))

\* A variant of registerPlugin without the has(pluginId) test: C16 fails
\* with it.
registerPluginOverwriting(w, plugin) ==
  LET pluginId == createUniqueUuid(plugin)
      f == NewFrame("register", pluginId, FALSE, NoFault)
  IN Return([w EXCEPT !.plugins[pluginId] =
               [ name |-> plugin, status |-> "READY", plugin |-> plugin,
                 createdAt |-> w.clock, loadedAt |-> NoTime, unloadedAt |-> NoTime,
                 error |-> None, components |-> EmptyComponents ]],
            Emit(f, "plugin:ready"), "ok")

\* registerPlugin(plugin)
registerPlugin(w, plugin) ==
  LET pluginId == createUniqueUuid(plugin)
      f == NewFrame("register", pluginId, FALSE, NoFault)
  IN IF Has(w.plugins, pluginId)
     THEN Return(w, f, "AlreadyRegistered")
     ELSE Return([w EXCEPT !.plugins[pluginId] =
                    [ name |-> plugin, status |-> "READY", plugin |-> plugin,
                      createdAt |-> w.clock, loadedAt |-> NoTime, unloadedAt |-> NoTime,
                      error |-> None, components |-> EmptyComponents ]],
                 Emit(f, "plugin:ready"), "ok")

\* ----------------------------------------------------------- registry client
\* const CACHE_DURATION = 3600000; // 1 hour
CACHE_DURATION == 3600000

\* A catalog maps package names to registry entries; of an entry, whether
\* it has an npm.repo and a git.repo, and the version or branch its git.v1
\* names ('main' when it names none).
EmptyCatalog == << >>
RegistryCatalogs ==
  { EmptyCatalog,
    "npm-example" :> [npm |-> TRUE, git |-> FALSE, ref |-> "main"],
    ("npm-example" :> [npm |-> TRUE, git |-> FALSE, ref |-> "main"])
      @@ ("git-example" :> [npm |-> FALSE, git |-> TRUE, ref |-> "v1.0.0"])
      @@ ("both-example" :> [npm |-> TRUE, git |-> TRUE, ref |-> "main"])
      @@ ("broken-example" :> [npm |-> FALSE, git |-> FALSE, ref |-> "main"]) }

\* let registryCache = null: no data and no timestamp.
NoCache == [data |-> EmptyCatalog, timestamp |-> NoTime]

\* What fetch(REGISTRY_URL) and response.json() do: the catalog arrives,
\* fetch rejects, the response is not ok, or the body is no JSON.
FetchOutcomes ==
  { [kind |-> "ok", data |-> c] : c \in RegistryCatalogs }
  \cup { [kind |-> k, data |-> EmptyCatalog] : k \in {"rejected", "notOk", "badJson"} }

\* A variant of getLocalRegistryIndex whose catch block forgets the cache:
\* C20 fails with it.
getLocalRegistryIndexForgetful(cache, now, outcome) ==
  IF cache # NoCache /\ now - cache.timestamp < CACHE_DURATION
  THEN [cache |-> cache, data |-> cache.data, fetched |-> FALSE, raised |-> FALSE]
  ELSE IF outcome.kind = "ok"
  THEN [cache |-> [data |-> outcome.data, timestamp |-> now],
        data |-> outcome.data, fetched |-> TRUE, raised |-> FALSE]
  ELSE [cache |-> cache, data |-> EmptyCatalog, fetched |-> TRUE, raised |-> FALSE]

\* A variant of getLocalRegistryIndex that still serves the cache when its
\* age is exactly the cache lifetime: C21 fails with it.
getLocalRegistryIndexInclusive(cache, now, outcome) ==
  IF cache # NoCache /\ now - cache.timestamp <= CACHE_DURATION
  THEN [cache |-> cache, data |-> cache.data, fetched |-> FALSE, raised |-> FALSE]
  ELSE IF outcome.kind = "ok"
  THEN [cache |-> [data |-> outcome.data, timestamp |-> now],
        data |-> outcome.data, fetched |-> TRUE, raised |-> FALSE]
  ELSE IF cache # NoCache
  THEN [cache |-> cache, data |-> cache.data, fetched |-> TRUE, raised |-> FALSE]
  ELSE [cache |-> cache, data |-> EmptyCatalog, fetched |-> TRUE, raised |-> FALSE]

\* getLocalRegistryIndex: the cache when it is young enough; else a fetch,
\* which refreshes the cache when it succeeds; when it fails, the cached
\* data if there is any, else the empty catalog.  Nothing is thrown
\* outside the try block.
getLocalRegistryIndex(cache, now, outcome) ==
  IF cache # NoCache /\ now - cache.timestamp < CACHE_DURATION
  THEN [cache |-> cache, data |-> cache.data, fetched |-> FALSE, raised |-> FALSE]
  ELSE IF outcome.kind = "ok"
  THEN [cache |-> [data |-> outcome.data, timestamp |-> now],
        data |-> outcome.data, fetched |-> TRUE, raised |-> FALSE]
  ELSE IF cache # NoCache
  THEN [cache |-> cache, data |-> cache.data, fetched |-> TRUE, raised |-> FALSE]
  ELSE [cache |-> cache, data |-> EmptyCatalog, fetched |-> TRUE, raised |-> FALSE]

\* getAvailablePluginsFromRegistry()
getAvailablePluginsFromRegistry(cache, now, outcome) ==
  getLocalRegistryIndex(cache, now, outcome)

\* The instants the clock of SpecRegistry can show: around each multiple of
\* the cache lifetime.
Instants ==
  { t \in UNION { { h * CACHE_DURATION - 1, h * CACHE_DURATION, h * CACHE_DURATION + 1 } :
                    h \in 0..MaxHours } : t >= 0 }

\* ---------------------------------------------------------- install paths
\* A string is a sequence of characters.  The characters a plugin name is
\* made of here: a letter, a capital, a digit, the dash and the underscore,
\* which /[^a-zA-Z0-9-_]/ leaves alone, and four it does not.
SafeChars == { "a", "Z", "0", "-", "_" }

RECURSIVE NamesUpTo(_)
NamesUpTo(n) ==
  IF n = 0 THEN { << >> }
  ELSE LET shorter == NamesUpTo(n - 1)
       IN shorter \cup { Append(s, c) : s \in { t \in shorter : Len(t) = n - 1 }, c \in SafeChars \cup { "/", ".", "@", "\\" } }

\* pluginName.replace(/[^a-zA-Z0-9-_]/g, '_')
Sanitize(name) ==
  [ i \in 1..Len(name) |-> IF name[i] \in SafeChars THEN name[i] ELSE "_" ]

\* path.join(...segments): a path is the sequence of its segments; join
\* normalises, so an empty segment and "." vanish and ".." takes the
\* segment before it away (a ".." with nothing before it stays).
RECURSIVE Normalize(_, _)
Normalize(done, rest) ==
  IF rest = << >> THEN done
  ELSE LET seg == Head(rest)
       IN IF seg = << >> \/ seg = << "." >> THEN Normalize(done, Tail(rest))
          ELSE IF seg = << ".", "." >> /\ done # << >> /\ done[Len(done)] # << ".", "." >>
          THEN Normalize(SubSeq(done, 1, Len(done) - 1), Tail(rest))
          ELSE Normalize(Append(done, seg), Tail(rest))

PathJoin(segments) == Normalize(<< >>, segments)

\* path.dirname of a normalised path
Dirname(path) == IF path = << >> THEN << >> ELSE SubSeq(path, 1, Len(path) - 1)

\* this.pluginManagerConfig.pluginDirectory || './plugins': the tests
\* configure './test-plugins'.
PluginDirectories == { << << "." >>, << "p" >> >>, << << "." >>, << "t" >> >> }
InstalledSegment == << "i" >>

\* getPluginInstallPath(pluginName)
getPluginInstallPath(pluginDirectory, pluginName) ==
  PathJoin(pluginDirectory \o << InstalledSegment, Sanitize(pluginName) >>)

\* No path computed yet.
NoPath == [ pluginDirectory |-> << >>, pluginName |-> << >>, path |-> << >>, computed |-> FALSE ]

\* --------------------------------------------------------------- installer
\* The configuration of the constructor, with the plugin directory of the
\* tests.  No code reads maxBuildAttempts or buildTimeout.
pluginManagerConfig ==
  [ maxBuildAttempts |-> 3, buildTimeout |-> 60000,
    pluginDirectory |-> << << "." >>, << "t" >> >>, enableHotReload |-> TRUE ]

\* The names plugins are installed under, spelled out.
Spelling ==
  ("npm-example" :> << "@", "a", "/", "a" >>)
    @@ ("git-example" :> << "@", "a", "/", "0" >>)
    @@ ("both-example" :> << "@", "a", "/", "Z" >>)
    @@ ("broken-example" :> << "@", "a", "/", "-" >>)
    @@ ("local-example" :> << "a", "-", "a" >>)
    @@ ("unknown" :> << "a" >>)
    @@ ("constructor" :> << "Z", "a" >>)
InstallNames == DOMAIN Spelling
\* The names asked of the registry: the entries of the catalogs, and the
\* name of a member every JavaScript object inherits.
RegistryNames ==
  { "npm-example", "git-example", "both-example", "broken-example", "constructor" }
ObjectPrototypeKeys == { "constructor" }

\* What an installed directory can hold: the manifest (package.json:
\* whether it can be read, its name, version and elizaos.requiredEnvVars),
\* whether node_modules is there, and the entry point (whether importing
\* it succeeds, and its exports in key order).
ArtifactTable ==
  [ plain    |-> [ readable |-> TRUE, name |-> "local-example", version |-> "1.0.0",
                   requiredEnvVars |-> << >>, nodeModules |-> FALSE,
                   imports |-> TRUE,
                   exports |-> << [key |-> "helper", value |-> "function"],
                                  [key |-> "plugin", value |-> "p1"] >> ],
    built    |-> [ readable |-> TRUE, name |-> "npm-example", version |-> "1.0.0",
                   requiredEnvVars |-> << >>, nodeModules |-> TRUE,
                   imports |-> TRUE, exports |-> << [key |-> "default", value |-> "p2"] >> ],
    needsKey |-> [ readable |-> TRUE, name |-> "npm-example", version |-> "1.0.0",
                   requiredEnvVars |-> << "API_KEY" >>, nodeModules |-> FALSE,
                   imports |-> TRUE, exports |-> << [key |-> "default", value |-> "p2"] >> ],
    helpers  |-> [ readable |-> TRUE, name |-> "git-example", version |-> "1.0.0",
                   requiredEnvVars |-> << >>, nodeModules |-> FALSE,
                   imports |-> TRUE,
                   exports |-> << [key |-> "default", value |-> "nameless"],
                                  [key |-> "helper", value |-> "function"] >> ],
    bare     |-> [ readable |-> TRUE, name |-> "", version |-> "",
                   requiredEnvVars |-> << >>, nodeModules |-> FALSE,
                   imports |-> FALSE, exports |-> << >> ],
    broken   |-> [ readable |-> FALSE, name |-> "", version |-> "",
                   requiredEnvVars |-> << >>, nodeModules |-> FALSE,
                   imports |-> FALSE, exports |-> << >> ] ]

\* What the package or repository of a registry name may hold when it is
\* installed.
Published ==
  ("npm-example" :> { "built", "needsKey" })
    @@ ("git-example" :> { "plain", "broken", "helpers" })
    @@ ("both-example" :> { "bare" })
    @@ ("broken-example" :> { "plain" })
    @@ ("constructor" :> { "plain" })

\* The disk maps the paths that exist to what is there: "file", "empty"
\* (a directory with nothing in it) or an artifact.  At the start there are
\* two bundle directories and a compressed bundle.
BundleTable ==
  (<< << "b" >>, << "1" >> >> :> "plain")
    @@ (<< << "b" >>, << "2" >> >> :> "needsKey")
    @@ (<< << "b" >>, << "3" >> >> :> "built")
    @@ (<< << "b" >>, << "t", "g", "z" >> >> :> "file")
BundlePaths == DOMAIN BundleTable \cup { << << "b" >>, << "0" >> >> }

Exists(disk, path) == path \in DOMAIN disk
WriteDisk(disk, path, content) == (path :> content) @@ disk
RemoveDisk(disk, path) == [ q \in DOMAIN disk \ { path } |-> disk[q] ]
\* fs.ensureDir(path)
EnsureDir(disk, path) == IF Exists(disk, path) THEN disk ELSE WriteDisk(disk, path, "empty")

\* The steps of an install call that can fail; the external commands
\* (execa) among them can also never complete.
ExecaSteps == { "npmInstall", "gitClone", "gitCheckout", "depInstall", "bundleDepInstall" }
ErrorOf(step) == step \o " failed"
Pending == "pending"

\* One install call's environment: what the registry fetch does, which
\* step fails and how, and what the package holds.
FullCatalog == CHOOSE c \in RegistryCatalogs : \A d \in RegistryCatalogs : DOMAIN d \subseteq DOMAIN c
InstallPlans(steps, found) ==
  { [fetch |-> o, failAt |-> "none", how |-> "ok", found |-> a] :
      o \in FetchOutcomes, a \in found }
  \cup { [fetch |-> [kind |-> "ok", data |-> FullCatalog], failAt |-> st, how |-> "throws",
          found |-> a] : st \in steps, a \in found }
  \cup { [fetch |-> [kind |-> "ok", data |-> FullCatalog], failAt |-> st, how |-> "hangs",
          found |-> a] : st \in steps \cap ExecaSteps, a \in found }

\* The steps an install of a registry name can get to, and those of a
\* local bundle.
RegistrySteps ==
  ("npm-example" :> { "ensureParent", "ensureTarget", "npmInstall" })
    @@ ("git-example" :> { "ensureTemp", "gitClone", "gitCheckout", "depInstall", "copy",
                           "removeTemp" })
    @@ ("both-example" :> { "npmInstall" })
    @@ ("broken-example" :> { "ensureTarget" })
    @@ ("constructor" :> { "ensureParent" })
BundleSteps == { "ensureParent", "bundleCopy", "bundleDepInstall" }

\* The InstalledPluginRecord of a name that has none.
NoInfo ==
  [ name |-> "", version |-> "", status |-> "absent", path |-> << >>,
    requiredEnvVars |-> << >>, errorDetails |-> None, installedAt |-> NoTime ]

\* A call in progress: its disk, registry cache and table of installed
\* plugins, the external commands it has run, and how it has ended
\* ("running" until it ends, Pending when a command never completes).
NewInstall(disk, cache, installed, plan, now) ==
  [ disk |-> disk, cache |-> cache, installed |-> installed, plan |-> plan, now |-> now,
    cmds |-> << >>, temp |-> << >>, events |-> << >>, res |-> "running" ]

\* One step: unless the call has ended, it fails, hangs, or has its effect.
Do(c, step, disk) ==
  IF c.res # "running" THEN c
  ELSE LET ran == IF step \in ExecaSteps THEN Append(c.cmds, step) ELSE c.cmds
       IN IF c.plan.failAt # step THEN [c EXCEPT !.cmds = ran, !.disk = disk]
          ELSE IF c.plan.how = "hangs" THEN [c EXCEPT !.cmds = ran, !.res = Pending]
          ELSE [c EXCEPT !.cmds = ran, !.res = ErrorOf(step)]

Throw(c, message) == IF c.res # "running" THEN c ELSE [c EXCEPT !.res = message]

\* onProgress?.({ phase, progress, message }): the report joins what the
\* caller has seen of the call.
Report(c, phase, progress) ==
  IF c.res # "running" THEN c
  ELSE [c EXCEPT !.events = Append(@, [kind |-> "report", phase |-> phase,
                                       progress |-> progress])]

\* installFromNpm: npm install <package>@<version> --prefix <targetDir>
installFromNpm(c, targetDir) ==
  LET announced == Report(c, "downloading", 30)
  IN Report(Do(announced, "npmInstall", WriteDisk(c.disk, targetDir, c.plan.found)),
            "installing", 80)

\* installFromGit without its finally block: the commands under try.
GitTry(c, tempDir, version, targetDir) ==
  LET cloned == Do(Report(c, "downloading", 20), "gitClone",
                   WriteDisk(c.disk, tempDir, c.plan.found))
      checkedOut == IF version \notin { "main", "master" }
                    THEN Do(Report(cloned, "extracting", 40), "gitCheckout", cloned.disk)
                    ELSE cloned
      built == Do(Report(checkedOut, "installing", 60), "depInstall", checkedOut.disk)
  IN Do(Report(built, "extracting", 80), "copy",
        WriteDisk(built.disk, targetDir, built.disk[tempDir]))

\* A variant of the finally block that runs only when the try block
\* succeeded: C25 fails with it.
GitFinallyOnSuccess(c, tempDir) ==
  IF c.res # "running" THEN c
  ELSE Do(c, "removeTemp", RemoveDisk(c.disk, tempDir))

\* finally { await fs.remove(tempDir) }: runs when the try block has ended,
\* not while a command of it is still running; when the removal throws,
\* its error replaces the outcome of the try block.
GitFinally(c, tempDir) ==
  IF c.res = Pending THEN c
  ELSE LET removal == Do([c EXCEPT !.res = "running"], "removeTemp", RemoveDisk(c.disk, tempDir))
       IN IF removal.res = "running" THEN [removal EXCEPT !.res = c.res] ELSE removal

TempSegment(now) == << "t", "e", "m", "p", "-", ToString(now) >>

\* installFromGit
installFromGit(c, version, targetDir) ==
  LET tempDir == PathJoin(targetDir \o << << ".", "." >>, TempSegment(c.now) >>)
      made == Do(c, "ensureTemp", EnsureDir(c.disk, tempDir))
  IN IF made.res # "running" THEN made
     ELSE GitFinally(GitTry([made EXCEPT !.temp = tempDir], tempDir, version, targetDir), tempDir)

\* registry[pluginName]: the entry of that name; for a name the catalog
\* does not have, the member of that name the catalog object inherits (a
\* function, which has no npm and no git), and otherwise undefined.
NoEntry == [npm |-> FALSE, git |-> FALSE, ref |-> "undefined"]
InheritedMember == [npm |-> FALSE, git |-> FALSE, ref |-> "inherited"]
RegistryLookup(registry, pluginName) ==
  IF pluginName \in DOMAIN registry THEN registry[pluginName]
  ELSE IF pluginName \in ObjectPrototypeKeys THEN InheritedMember
  ELSE NoEntry

NotInRegistry(pluginName) == "Plugin " \o pluginName \o " not found in registry"
NoInstallMethod(pluginName) == "No installation method available for plugin " \o pluginName

\* The strategies of installPlugin, in the order it tries them.
StrategyOf(entry) ==
  IF entry.npm THEN "npm" ELSE IF entry.git THEN "git" ELSE "none"

\* installPlugin(pluginName, targetDir, version)
installPlugin(c, pluginName, targetDir, version) ==
  LET ensured == Report(Do(c, "ensureTarget", EnsureDir(c.disk, targetDir)),
                        "downloading", 10)
      index == getLocalRegistryIndex(ensured.cache, ensured.now, ensured.plan.fetch)
      fetched == IF ensured.res = "running" THEN [ensured EXCEPT !.cache = index.cache]
                 ELSE ensured
      entry == RegistryLookup(index.data, pluginName)
  IN IF fetched.res # "running" THEN fetched
     ELSE IF entry = NoEntry THEN Throw(fetched, NotInRegistry(pluginName))
     ELSE IF StrategyOf(entry) = "npm" THEN installFromNpm(fetched, targetDir)
     ELSE IF StrategyOf(entry) = "git"
     THEN installFromGit(fetched, IF version # None THEN version ELSE entry.ref, targetDir)
     ELSE Throw(fetched, NoInstallMethod(pluginName))

\* parsePluginMetadata(pluginPath): readJson throws when there is no
\* manifest that can be read; name and version have defaults; every
\* required variable is recorded as not set.
ReadJsonError == "readJson failed"
CanReadManifest(disk, pluginPath) ==
  /\ Exists(disk, pluginPath)
  /\ disk[pluginPath] \in DOMAIN ArtifactTable
  /\ ArtifactTable[disk[pluginPath]].readable

parsePluginMetadata(disk, pluginPath) ==
  LET packageJson == ArtifactTable[disk[pluginPath]]
  IN [ name |-> IF packageJson.name # "" THEN packageJson.name ELSE "unknown",
       version |-> IF packageJson.version # "" THEN packageJson.version ELSE "0.0.0",
       requiredEnvVars |-> [ i \in 1..Len(packageJson.requiredEnvVars) |->
                               [ name |-> packageJson.requiredEnvVars[i], isSet |-> FALSE ] ] ]

\* The record both install operations store.
PluginInfo(metadata, pluginDir, now) ==
  [ name |-> metadata.name, version |-> metadata.version,
    status |-> IF Len(metadata.requiredEnvVars) > 0 THEN "needs_configuration" ELSE "installed",
    path |-> pluginDir, requiredEnvVars |-> metadata.requiredEnvVars,
    errorDetails |-> None, installedAt |-> now ]

\* A variant of StoreInfo that reports completion before it reads the
\* manifest: C38 fails with it.
StoreInfoReportingFirst(c, key, manifestPath, pluginDir) ==
  IF c.res # "running" THEN c
  ELSE IF ~CanReadManifest(c.disk, manifestPath)
  THEN Throw(Report(c, "complete", 100), ReadJsonError)
  ELSE [c EXCEPT !.installed[key] =
                   PluginInfo(parsePluginMetadata(c.disk, manifestPath), pluginDir, c.now),
                 !.events = @ \o << [kind |-> "report", phase |-> "complete", progress |-> 100],
                                    [kind |-> "stored", key |-> key] >>,
                 !.res = "ok"]

\* The end of both install operations: the metadata of the manifest goes
\* into the record, this.installedPlugins.set stores it, completion is
\* reported, the call returns.
StoreInfo(c, key, manifestPath, pluginDir) ==
  IF c.res # "running" THEN c
  ELSE IF ~CanReadManifest(c.disk, manifestPath) THEN Throw(c, ReadJsonError)
  ELSE LET stored ==
             [c EXCEPT !.installed[key] =
                         PluginInfo(parsePluginMetadata(c.disk, manifestPath), pluginDir, c.now),
                       !.events = Append(@, [kind |-> "stored", key |-> key])]
       IN [Report(stored, "complete", 100) EXCEPT !.res = "ok"]

\* installPluginFromRegistry(pluginName, version)
installPluginFromRegistry(disk, cache, installed, now, pluginName, version, plan) ==
  LET pluginDir == getPluginInstallPath(pluginManagerConfig.pluginDirectory, Spelling[pluginName])
      c == Do(NewInstall(disk, cache, installed, plan, now), "ensureParent",
              EnsureDir(disk, Dirname(pluginDir)))
      done == installPlugin(c, pluginName, pluginDir, version)
  IN StoreInfo(Report(done, "validating", 90), pluginName, pluginDir, pluginDir)

BundleNotFound == "Bundle path does not exist"
UnsupportedBundleFormat == "Compressed bundle installation not yet implemented"

\* A variant of installFromLocalBundle without the isDirectory test.
LocalBundleChecksNoFormat(c, bundlePath) ==
  IF ~Exists(c.disk, bundlePath) THEN Throw(c, BundleNotFound)
  ELSE IF ~CanReadManifest(c.disk, bundlePath)
  THEN Throw([c EXCEPT !.events = Append(@, [kind |-> "report", phase |-> "validating",
                                             progress |-> 30])], ReadJsonError)
  ELSE [c EXCEPT !.events = Append(@, [kind |-> "report", phase |-> "validating",
                                       progress |-> 30])]

\* installFromLocalBundle up to the manifest: the path exists, it is a
\* directory, and after the second report its manifest can be read.
LocalBundleChecks(c, bundlePath) ==
  IF ~Exists(c.disk, bundlePath) THEN Throw(c, BundleNotFound)
  ELSE IF c.disk[bundlePath] = "file" THEN Throw(c, UnsupportedBundleFormat)
  ELSE IF ~CanReadManifest(c.disk, bundlePath)
  THEN Throw(Report(c, "validating", 30), ReadJsonError)
  ELSE Report(c, "validating", 30)

\* installFromLocalBundle(bundlePath)
installFromLocalBundle(disk, cache, installed, now, bundlePath, plan) ==
  LET checked == LocalBundleChecks(Report(NewInstall(disk, cache, installed, plan, now),
                                          "validating", 10), bundlePath)
  IN IF checked.res # "running" THEN checked
     ELSE LET metadata == parsePluginMetadata(disk, bundlePath)
              pluginDir == getPluginInstallPath(pluginManagerConfig.pluginDirectory,
                                                Spelling[metadata.name])
              ensured == Do(checked, "ensureParent", EnsureDir(disk, Dirname(pluginDir)))
              copied == Do(Report(ensured, "installing", 60), "bundleCopy",
                           WriteDisk(ensured.disk, pluginDir, disk[bundlePath]))
              built == IF ArtifactTable[disk[bundlePath]].nodeModules THEN copied
                       ELSE Do(Report(copied, "installing", 80), "bundleDepInstall",
                               copied.disk)
          IN StoreInfo(built, metadata.name, bundlePath, pluginDir)

\* What a module can export: the plugin objects, and values that are no
\* plugins.  Of a value: whether it is a non-null object, whether it has a
\* name, and whether it has one of actions, services, providers,
\* evaluators, init.
ExportTable ==
  [ p1       |-> [ object |-> TRUE,  name |-> TRUE,  capability |-> TRUE ],
    p2       |-> [ object |-> TRUE,  name |-> TRUE,  capability |-> TRUE ],
    function |-> [ object |-> FALSE, name |-> TRUE,  capability |-> FALSE ],
    nameless |-> [ object |-> TRUE,  name |-> FALSE, capability |-> TRUE ] ]

\* isValidPlugin(obj)
isValidPlugin(obj) ==
  ExportTable[obj].object /\ ExportTable[obj].name /\ ExportTable[obj].capability

\* What goes wrong inside the try block of loadPluginModule: reading the
\* manifest throws, or importing the entry point throws; None when neither
\* does.
ImportError == "import failed"
ModuleFailure(disk, pluginPath) ==
  IF ~CanReadManifest(disk, pluginPath) THEN ReadJsonError
  ELSE IF ~ArtifactTable[disk[pluginPath]].imports THEN ImportError
  ELSE None

\* A variant of PluginExport that takes the first plugin-shaped export in
\* key order, the default export like any other: C31 fails with it.
PluginExportInKeyOrder(exports) ==
  LET valid == { i \in 1..Len(exports) : isValidPlugin(exports[i].value) }
  IN IF valid = {} THEN None
     ELSE exports[CHOOSE i \in valid : \A j \in valid : i <= j].value

\* The search of loadPluginModule through the exports of the imported
\* module, listed in the order of Object.keys(module): module.default when
\* it is a plugin, else the first export that is one, else null (None).
PluginExport(exports) ==
  LET valid == { i \in 1..Len(exports) : isValidPlugin(exports[i].value) }
      defaults == { i \in valid : exports[i].key = "default" }
  IN IF valid = {} THEN None
     ELSE IF defaults # {} THEN exports[CHOOSE i \in defaults : TRUE].value
     ELSE exports[CHOOSE i \in valid : \A j \in valid : i <= j].value

\* loadPluginModule(pluginPath): the default export when it is a plugin,
\* else the first export that is one; null (None) when there is none, and
\* also when reading the manifest or importing the entry point throws:
\* the catch block returns null.
loadPluginModule(disk, pluginPath) ==
  IF ModuleFailure(disk, pluginPath) # None THEN None
  ELSE PluginExport(ArtifactTable[disk[pluginPath]].exports)

NotInstalled(pluginName) == "Plugin " \o pluginName \o " is not installed"
ConfigurationRequired(pluginName) ==
  "Plugin " \o pluginName \o " requires configuration before loading"
ModuleLoadFailed == "Failed to load plugin module"

\* ------------------------------------------------------------------- state
VARIABLES
  runtime,            \* the host registries (IAgentRuntime)
  plugins,            \* PluginManagerService.plugins
  componentRegistry,  \* PluginManagerService.componentRegistry
  clock,              \* Date.now()
  registryCache,      \* the module's registryCache: NoCache, or data and timestamp
  installPath,        \* the install path computed last, for which name
  installedPlugins,   \* PluginManagerService.installedPlugins
  disk,               \* the file system: the paths that exist and what is there
  pending,            \* the install calls waiting for a command that never completes
  nLoads,             \* load calls that got past the guards so far
  calls,              \* the calls in flight, in the order they began
  round               \* the two calls that were begun while one was in flight

vars == << runtime, plugins, componentRegistry, clock, registryCache, installPath,
          installedPlugins, disk, pending, nLoads, calls, round >>

\* What the lifecycle calls and the registry client leave alone.
installerVars == << installPath, installedPlugins, disk, pending >>

World ==
  [ runtime |-> runtime, plugins |-> plugins,
    componentRegistry |-> componentRegistry, clock |-> clock ]

\* The world a call begins in: time has passed since the previous call.
Tick(w) == [w EXCEPT !.clock = Min(@ + 1, MaxClock)]

InitWorld ==
  [ runtime |-> InitRuntime, plugins |-> initializeRegistry,
    componentRegistry |-> [ id \in PluginIds |-> << >> ], clock |-> 0 ]

NoRound == [ phase |-> "setup", w0 |-> InitWorld, begun |-> << >>, done |-> << >> ]

\* The state after the constructor.
Init ==
  /\ runtime = InitRuntime
  /\ plugins = initializeRegistry
  /\ componentRegistry = [ id \in PluginIds |-> << >> ]
  /\ clock = 0
  /\ registryCache = NoCache
  /\ installPath = NoPath
  /\ installedPlugins = [ n \in InstallNames |-> NoInfo ]
  /\ disk = BundleTable
  /\ pending = {}
  /\ nLoads = 0
  /\ calls = << >>
  /\ round = NoRound

SetWorld(w) ==
  /\ runtime' = w.runtime
  /\ plugins' = w.plugins
  /\ componentRegistry' = w.componentRegistry
  /\ clock' = w.clock
  /\ UNCHANGED << registryCache, installerVars >>

\* A whole call of loadPlugin or unloadPlugin, nothing else running.
loadPlugin(w, id, force, plan) == RunCall(w, NewFrame("load", id, force, plan))
unloadPlugin(w, id, plan) == RunCall(w, NewFrame("unload", id, FALSE, plan))

\* ------------------------------------------------------ loadInstalledPlugin
\* The message of the error a lifecycle call ended with.
AlreadyRegistered(plugin) == "Plugin " \o plugin \o " already registered"
MessageOf(f) == IF f.err # None THEN f.err ELSE f.res

\* A variant of the catch block that records the status only: C32 fails
\* with it.
LoadInstalledCatchStatusOnly(w, installed, pluginName, message) ==
  [ w |-> w,
    installed |-> [installed EXCEPT ![pluginName].status = "error"],
    res |-> "raised", err |-> message, id |-> None ]

\* catch (error) { pluginInfo.status = 'error'; pluginInfo.errorDetails =
\* error.message; throw error }
LoadInstalledCatch(w, installed, pluginName, message) ==
  [ w |-> w,
    installed |-> [installed EXCEPT ![pluginName].status = "error",
                                    ![pluginName].errorDetails = message],
    res |-> "raised", err |-> message, id |-> None ]

\* A variant without the needs_configuration test: C23 fails with it.
LoadInstalledGuardUnconfigured(installed, pluginName) ==
  IF installed[pluginName] = NoInfo THEN NotInstalled(pluginName) ELSE None

\* The two tests before the try block: the error thrown, or None.
LoadInstalledGuard(installed, pluginName) ==
  IF installed[pluginName] = NoInfo THEN NotInstalled(pluginName)
  ELSE IF installed[pluginName].status = "needs_configuration"
  THEN ConfigurationRequired(pluginName)
  ELSE None

\* loadInstalledPlugin(pluginName), nothing else running: the module is
\* loaded, registered and loaded as a plugin; plan is what the host and the
\* plugin do during loadPlugin.
loadInstalledPlugin(w, installed, files, pluginName, plan) ==
  IF LoadInstalledGuard(installed, pluginName) # None
  THEN [ w |-> w, installed |-> installed, res |-> "raised",
         err |-> LoadInstalledGuard(installed, pluginName), id |-> None ]
  ELSE IF loadPluginModule(files, installed[pluginName].path) = None
  THEN LoadInstalledCatch(w, installed, pluginName, ModuleLoadFailed)
  ELSE LET reg == registerPlugin(w, loadPluginModule(files, installed[pluginName].path))
       IN IF reg.f.res # "ok"
          THEN LoadInstalledCatch(reg.w, installed, pluginName,
                 AlreadyRegistered(loadPluginModule(files, installed[pluginName].path)))
          ELSE LET ld == loadPlugin(reg.w, reg.f.id, FALSE, plan)
               IN IF ld.f.res # "ok"
                  THEN LoadInstalledCatch(ld.w, installed, pluginName, MessageOf(ld.f))
                  ELSE [ w |-> ld.w,
                         installed |-> [installed EXCEPT ![pluginName].status = "loaded"],
                         res |-> "ok", err |-> None, id |-> reg.f.id ]

\* A load call that got past the guards counts against MaxLoads.
Charged(f) == f.op = "load" /\ f.plugin # None

StatusOf(pl, id) == IF id \in DOMAIN pl THEN pl[id].status ELSE "ABSENT"

\* The records of the registry, and those added since construction.
Records == { id \in PluginIds : Has(plugins, id) }
Registered == Cardinality({ id \in Records : plugins[id].name \notin originalPlugins })

\* The ids calls are made with: the registered ones and one unknown id.
CallIds == Records \cup { UnknownId }

\* The plans to try for a call: the faults only matter when the call gets
\* past the guards.
PlansForLoad(w, id, force) ==
  LET f == LoadStart(w, NewFrame("load", id, force, NoFault)).f
  IN IF f.pc = "done" THEN { NoFault } ELSE LoadPlans(f.plugin)

PlansForUnload(w, id) ==
  IF StatusOf(w.plugins, id) = "LOADED" THEN UnloadPlans ELSE { NoFault }

\* ------------------------------------------------ calls, one after the other
\* No call is in flight and none has been begun beside another.
Quiet == calls = << >> /\ round.phase = "setup"

RegisterPlugin(plugin) ==
  /\ Quiet
  /\ \E r \in { registerPlugin(Tick(World), plugin) } :
        /\ r.f.res = "ok" => Registered < MaxRegistered
        /\ SetWorld(r.w)
  /\ UNCHANGED << nLoads, calls, round >>

LoadPlugin(id, force) ==
  /\ Quiet
  /\ LET pre == Tick(World)
     IN \E plan \in PlansForLoad(pre, id, force) :
          \E r \in { loadPlugin(pre, id, force, plan) } :
             /\ Charged(r.f) => nLoads < MaxLoads
             /\ nLoads' = IF Charged(r.f) THEN nLoads + 1 ELSE nLoads
             /\ SetWorld(r.w)
  /\ UNCHANGED << calls, round >>

UnloadPlugin(id) ==
  /\ Quiet
  /\ LET pre == Tick(World)
     IN \E plan \in PlansForUnload(pre, id) :
          SetWorld(unloadPlugin(pre, id, plan).w)
  /\ UNCHANGED << nLoads, calls, round >>

Next ==
  \/ \E plugin \in PluginNames : RegisterPlugin(plugin)
  \/ \E id \in CallIds, force \in BOOLEAN : LoadPlugin(id, force)
  \/ \E id \in CallIds : UnloadPlugin(id)

Spec == Init /\ [][Next]_vars

\* ------------------------------------------------------- calls that overlap
\* SpecConc: calls run one after the other until, once, a call is begun and
\* a second call is begun at one of its awaits; the two then resume in any
\* order, one segment at a time.  No call meets a fault.  round.w0 is the
\* state the first call began in, round.begun the two calls as issued,
\* round.done their frames as they returned.
SetupRegister(plugin) ==
  /\ Quiet
  /\ \E r \in { registerPlugin(Tick(World), plugin) } :
        /\ r.f.res = "ok" /\ Registered < MaxRegistered
        /\ SetWorld(r.w)
  /\ UNCHANGED << nLoads, calls, round >>

SetupLoad(id, force) ==
  /\ Quiet
  /\ \E r \in { loadPlugin(Tick(World), id, force, NoFault) } :
        /\ Charged(r.f) /\ nLoads < MaxLoads
        /\ nLoads' = nLoads + 1
        /\ SetWorld(r.w)
  /\ UNCHANGED << calls, round >>

SetupUnload(id) ==
  /\ Quiet
  /\ \E r \in { unloadPlugin(Tick(World), id, NoFault) } :
        /\ ~r.f.noop
        /\ SetWorld(r.w)
  /\ UNCHANGED << nLoads, calls, round >>

\* A call is issued: it runs up to its first await, or returns.
Issue(f0, pre, r) ==
  LET returned == r.f.pc = "done"
  IN /\ Charged(r.f) => nLoads < MaxLoads
     /\ nLoads' = IF Charged(r.f) THEN nLoads + 1 ELSE nLoads
     /\ SetWorld(r.w)
     /\ calls' = IF returned THEN calls ELSE Append(calls, r.f)
     /\ round' = [ phase |-> IF returned /\ calls = << >> THEN "over" ELSE "running",
                   w0    |-> IF round.begun = << >> THEN pre ELSE round.w0,
                   begun |-> Append(round.begun, f0),
                   done  |-> IF returned THEN Append(round.done, r.f) ELSE round.done ]

\* The first call of the round is one that reaches an await.
BeginFirst(op, id, force) ==
  /\ Quiet
  /\ \E r \in { Segment(Tick(World), NewFrame(op, id, force, NoFault)) } :
        /\ r.f.pc # "done"
        /\ Issue(NewFrame(op, id, force, NoFault), Tick(World), r)

BeginSecond(op, id, force) ==
  /\ round.phase = "running" /\ Len(round.begun) = 1 /\ calls # << >>
  /\ \E r \in { Segment(World, NewFrame(op, id, force, NoFault)) } :
        Issue(NewFrame(op, id, force, NoFault), World, r)

\* A suspended call resumes and runs to its next await, or returns.
Resume(i) ==
  /\ i \in 1..Len(calls)
  /\ \E r \in { Segment(World, calls[i]) } :
     LET returned == r.f.pc = "done"
         rest == IF returned
                 THEN SelectSeq([ j \in 1..Len(calls) |-> IF j = i THEN r.f ELSE calls[j] ],
                                LAMBDA g : g.pc # "done")
                 ELSE [calls EXCEPT ![i] = r.f]
     IN /\ SetWorld(r.w)
        /\ calls' = rest
        /\ round' = [round EXCEPT
                       !.phase = IF rest = << >> THEN "over" ELSE @,
                       !.done = IF returned THEN Append(@, r.f) ELSE @]
  /\ UNCHANGED nLoads

NextConc ==
  \/ \E plugin \in DynamicPluginNames : SetupRegister(plugin)
  \/ \E id \in Records, force \in BOOLEAN : SetupLoad(id, force)
  \/ \E id \in Records : SetupUnload(id)
  \/ \E id \in Records, force \in BOOLEAN : BeginFirst("load", id, force)
  \/ \E id \in Records : BeginFirst("unload", id, FALSE)
  \/ \E id \in Records, force \in BOOLEAN : BeginSecond("load", id, force)
  \/ \E id \in Records : BeginSecond("unload", id, FALSE)
  \/ \E i \in 1..Len(calls) : Resume(i)

SpecConc == Init /\ [][NextConc]_vars

\* --------------------------------------------------- the registry client
\* SpecRegistry: catalog requests with every outcome of the fetch, resets
\* of the cache, and time passing between them.
GetAvailablePluginsFromRegistry(outcome) ==
  /\ registryCache' = getAvailablePluginsFromRegistry(registryCache, clock, outcome).cache
  /\ UNCHANGED << runtime, plugins, componentRegistry, clock, nLoads, calls, round >>
  /\ UNCHANGED installerVars

\* resetRegistryCache()
ResetRegistryCache ==
  /\ registryCache' = NoCache
  /\ UNCHANGED << runtime, plugins, componentRegistry, clock, nLoads, calls, round >>
  /\ UNCHANGED installerVars

Advance(t) ==
  /\ t > clock
  /\ clock' = t
  /\ UNCHANGED << runtime, plugins, componentRegistry, registryCache, nLoads, calls, round >>
  /\ UNCHANGED installerVars

NextRegistry ==
  \/ \E outcome \in FetchOutcomes : GetAvailablePluginsFromRegistry(outcome)
  \/ ResetRegistryCache
  \/ \E t \in Instants : Advance(t)

SpecRegistry == Init /\ [][NextRegistry]_vars

\* ------------------------------------------------------------ the installer
\* SpecInstall: install calls from the registry and from local bundles,
\* one after the other, with every outcome of the registry fetch and of
\* the install steps.  The caller awaits each
\* call: after a call whose external command never completes, no call
\* follows.  The clock stands still.
InstallVersions == { None, "v2.0.0" }

EndInstall(c, op, key) ==
  /\ pending = {}
  /\ disk' = c.disk
  /\ registryCache' = c.cache
  /\ installedPlugins' = c.installed
  /\ pending' = IF c.res = Pending
                THEN pending \cup { [op |-> op, key |-> key, temp |-> c.temp] }
                ELSE pending
  /\ UNCHANGED << runtime, plugins, componentRegistry, clock, installPath, nLoads, calls, round >>

InstallPluginFromRegistry(pluginName, version, plan) ==
  \E c \in { installPluginFromRegistry(disk, registryCache, installedPlugins, clock,
                                       pluginName, version, plan) } :
    EndInstall(c, "installPluginFromRegistry", pluginName)

InstallFromLocalBundle(bundlePath, plan) ==
  \E c \in { installFromLocalBundle(disk, registryCache, installedPlugins, clock,
                                    bundlePath, plan) } :
    EndInstall(c, "installFromLocalBundle", bundlePath)

LoadInstalledPlugin(pluginName, plan) ==
  \E r \in { loadInstalledPlugin(World, installedPlugins, disk, pluginName, plan) } :
    /\ pending = {}
    /\ runtime' = r.w.runtime
    /\ plugins' = r.w.plugins
    /\ componentRegistry' = r.w.componentRegistry
    /\ clock' = r.w.clock
    /\ installedPlugins' = r.installed
    /\ UNCHANGED << registryCache, installPath, disk, pending, nLoads, calls, round >>

\* The fault plans of the plugin a loadInstalledPlugin call would load.
PlansForInstalled(pluginName) ==
  IF LoadInstalledGuard(installedPlugins, pluginName) # None
       \/ loadPluginModule(disk, installedPlugins[pluginName].path) = None
  THEN { NoFault }
  ELSE { plan \in LoadPlans(loadPluginModule(disk, installedPlugins[pluginName].path)) :
           plan.regThrowAt <= 1 /\ plan.startFail = {} }

NextInstall ==
  \/ \E pluginName \in DOMAIN FullCatalog, version \in InstallVersions :
       \E plan \in InstallPlans(RegistrySteps[pluginName], Published[pluginName]) :
         InstallPluginFromRegistry(pluginName, version, plan)
  \/ \E bundlePath \in BundlePaths : \E plan \in InstallPlans(BundleSteps, { "plain" }) :
       InstallFromLocalBundle(bundlePath, plan)

SpecInstall == Init /\ [][NextInstall]_vars

\* SpecLoadInstalled: installs in which every step succeeds, and
\* loadInstalledPlugin calls with what the host and the plugin can do
\* during loadPlugin.
SetupPlans(found) ==
  { plan \in InstallPlans({}, found) : plan.fetch = [kind |-> "ok", data |-> FullCatalog] }

NextLoadInstalled ==
  \/ \E pluginName \in { "npm-example", "git-example" } :
       \E plan \in SetupPlans(Published[pluginName]) :
         InstallPluginFromRegistry(pluginName, None, plan)
  \/ \E bundlePath \in DOMAIN BundleTable : \E plan \in SetupPlans({ "plain" }) :
       InstallFromLocalBundle(bundlePath, plan)
  \/ \E pluginName \in InstallNames : \E plan \in PlansForInstalled(pluginName) :
       LoadInstalledPlugin(pluginName, plan)

SpecLoadInstalled == Init /\ [][NextLoadInstalled]_vars

\* ------------------------------------------------------- the install paths
\* SpecPath: getPluginInstallPath on every name of up to MaxNameLen
\* characters, under each configured plugin directory.
GetPluginInstallPath(pluginDirectory, pluginName) ==
  /\ installPath' = [ pluginDirectory |-> pluginDirectory, pluginName |-> pluginName,
                      path |-> getPluginInstallPath(pluginDirectory, pluginName),
                      computed |-> TRUE ]
  /\ UNCHANGED << runtime, plugins, componentRegistry, clock, registryCache, nLoads, calls, round >>
  /\ UNCHANGED << installedPlugins, disk, pending >>

NextPath ==
  \E pluginDirectory \in PluginDirectories, pluginName \in NamesUpTo(MaxNameLen) :
    GetPluginInstallPath(pluginDirectory, pluginName)

SpecPath == Init /\ [][NextPath]_vars

TypeOK ==
  /\ clock \in (0..MaxClock) \cup Instants
  /\ registryCache.data \in RegistryCatalogs
  /\ nLoads \in 0..MaxLoads
  /\ \A id \in PluginIds :
       plugins[id].status \in {"ABSENT", "READY", "LOADED", "UNLOADED", "ERROR"}
  /\ Len(calls) <= 2 /\ Len(round.begun) <= 2

\* ------------------------------------------------------- shared vocabulary
Names(list) == { list[i].name : i \in 1..Len(list) }
Count(list, x) == Cardinality({ i \in 1..Len(list) : list[i] = x })

PluginOf(id) == plugins[id].plugin
Dynamic(id) == id \in Records /\ plugins[id].name \notin originalPlugins

\* The non-original names a plugin object declares, per component type.
OwnActions(plugin)    == Range(Catalog[plugin].actions) \ originalActions
OwnProviders(plugin)  == Range(Catalog[plugin].providers) \ originalProviders
OwnEvaluators(plugin) == Range(Catalog[plugin].evaluators) \ originalEvaluators
OwnServices(plugin)   == Range(Catalog[plugin].services) \ originalServices

\* The handlers a plugin object declares for an event.
Declared(plugin, event) ==
  UNION { Range(Catalog[plugin].events[i].handlers) :
            i \in { j \in 1..Len(Catalog[plugin].events) :
                      Catalog[plugin].events[j].event = event } }

\* The names tracked by some record, per component type.
TrackedActions    == UNION { plugins[id].components.actions : id \in Records }
TrackedProviders  == UNION { plugins[id].components.providers : id \in Records }
TrackedEvaluators == UNION { plugins[id].components.evaluators : id \in Records }
TrackedServices   == UNION { plugins[id].components.services : id \in Records }
HostServices      == { t \in ServiceTypes : runtime.services[t] # None }

\* ------------------------------------------------------------------ claims

\* C1: whatever sequence of registerPlugin, loadPlugin (forced or not) and
\* unloadPlugin calls has run, every action, provider and evaluator name and
\* every service type that the host held at construction is still in the
\* corresponding host registry; for the three lists, the very entry the
\* host held at construction is still there, not only a plugin's entry of
\* the same name.
C1_OriginalsNeverRemoved ==
  /\ originalActions \subseteq Names(runtime.actions)
  /\ originalProviders \subseteq Names(runtime.providers)
  /\ originalEvaluators \subseteq Names(runtime.evaluators)
  /\ originalServices \subseteq HostServices
  /\ Range(InitRuntime.actions) \subseteq Range(runtime.actions)
  /\ Range(InitRuntime.providers) \subseteq Range(runtime.providers)
  /\ Range(InitRuntime.evaluators) \subseteq Range(runtime.evaluators)

\* A plugin that declares an original action name or an original service
\* type has been loaded and unloaded.
C1_Witness ==
  \E id \in Records :
    /\ plugins[id].status = "UNLOADED"
    /\ \/ Range(Catalog[PluginOf(id)].actions) \cap originalActions # {}
       \/ Range(Catalog[PluginOf(id)].services) \cap originalServices # {}

\* C2: when a loaded plugin P declares an action whose name is an original
\* action name, then after a successful unloadPlugin(P) that name is still
\* in the host action list and none of the other action names P declares
\* is.
C2_CollisionKeepsOriginalOnly ==
  \A id \in Records :
    ( /\ plugins[id].status = "LOADED" /\ Dynamic(id)
      /\ Range(Catalog[PluginOf(id)].actions) \cap originalActions # {} )
    => LET r == unloadPlugin(Tick(World), id, NoFault)
       IN r.f.res = "ok" =>
            \A a \in Range(Catalog[PluginOf(id)].actions) :
              IF a \in originalActions
              THEN a \in Names(r.w.runtime.actions)
              ELSE a \notin Names(r.w.runtime.actions)

\* C3: for a plugin P that registerPlugin has added and nothing has loaded
\* yet, loadPlugin then unloadPlugin leave the host registries (actions,
\* providers, evaluators, event handlers, services, active plugins) as they
\* were before the load, and P's record UNLOADED with empty component sets
\* and an empty audit trail.
C3_RoundTrip ==
  \A id \in Records :
    ( Dynamic(id) /\ plugins[id].status = "READY" )
    => LET pre == Tick(World)
           loaded == loadPlugin(pre, id, FALSE, NoFault)
           r == unloadPlugin(Tick(loaded.w), id, NoFault)
       IN /\ loaded.f.res = "ok" /\ r.f.res = "ok"
          /\ r.w.runtime = pre.runtime
          /\ r.w.plugins[id].status = "UNLOADED"
          /\ r.w.plugins[id].components = EmptyComponents
          /\ r.w.componentRegistry[id] = << >>

\* C4: with no call in flight, the non-original names tracked by the records
\* are, per component type, exactly the non-original names in the host
\* registry of that type.
C4_TrackedEqualsRegistered ==
  calls = << >> =>
    /\ TrackedActions \ originalActions = Names(runtime.actions) \ originalActions
    /\ TrackedProviders \ originalProviders = Names(runtime.providers) \ originalProviders
    /\ TrackedEvaluators \ originalEvaluators
         = Names(runtime.evaluators) \ originalEvaluators
    /\ TrackedServices \ originalServices = HostServices \ originalServices

\* What C5 calls fully loaded and fully unloaded, for the record id in the
\* world w: every non-original component the plugin declares, and every
\* handler, is on the host and tracked; or none is on the host and none is
\* tracked.
FullyLoaded(w, id) ==
  LET plugin == w.plugins[id].plugin
      c == w.plugins[id].components
  IN /\ w.plugins[id].status = "LOADED"
     /\ OwnActions(plugin) \subseteq Names(w.runtime.actions) \cap c.actions
     /\ OwnProviders(plugin) \subseteq Names(w.runtime.providers) \cap c.providers
     /\ OwnEvaluators(plugin) \subseteq Names(w.runtime.evaluators) \cap c.evaluators
     /\ \A t \in OwnServices(plugin) : w.runtime.services[t] # None /\ t \in c.services
     /\ \A e \in EventNames :
          Declared(plugin, e) # {} =>
            /\ e \in DOMAIN c.eventHandlers
            /\ Declared(plugin, e) \subseteq Range(w.runtime.events[e]) \cap c.eventHandlers[e]

FullyUnloaded(w, id) ==
  LET plugin == w.plugins[id].plugin
      c == w.plugins[id].components
  IN /\ w.plugins[id].status \in {"READY", "UNLOADED"}
     /\ OwnActions(plugin) \cap (Names(w.runtime.actions) \cup c.actions) = {}
     /\ OwnProviders(plugin) \cap (Names(w.runtime.providers) \cup c.providers) = {}
     /\ OwnEvaluators(plugin) \cap (Names(w.runtime.evaluators) \cup c.evaluators) = {}
     /\ \A t \in OwnServices(plugin) : w.runtime.services[t] = None /\ t \notin c.services
     /\ \A e \in EventNames : Declared(plugin, e) \cap Range(w.runtime.events[e]) = {}
     /\ DOMAIN c.eventHandlers = {}

\* No name the plugin declares is on a host list twice, whoever put it
\* there, no handler twice on
\* an event, and the plugin object is not twice among the active plugins.
NoDuplicates(w, id) ==
  LET plugin == w.plugins[id].plugin
      twice(list) == \E i, j \in 1..Len(list) : i < j /\ list[i] = list[j]
      named(list, names) ==
        SelectSeq([ i \in 1..Len(list) |-> list[i].name ], LAMBDA x : x \in names)
  IN /\ ~twice(named(w.runtime.actions, OwnActions(plugin)))
     /\ ~twice(named(w.runtime.providers, OwnProviders(plugin)))
     /\ ~twice(named(w.runtime.evaluators, OwnEvaluators(plugin)))
     /\ \A e \in EventNames :
          ~twice(SelectSeq(w.runtime.events[e], LAMBDA h : h \in Declared(plugin, e)))
     /\ ~twice(SelectSeq(w.runtime.plugins, LAMBDA q : q = plugin))

\* The two calls of the round are over; they were a op1 and a op2 call.
RoundOf(op1, op2) ==
  /\ round.phase = "over" /\ Len(round.begun) = 2
  /\ { round.begun[1].op, round.begun[2].op } = { op1, op2 }

\* C5: loadPlugin(p) and unloadPlugin(p) are begun one during the other on
\* a plugin p that is fully loaded, each component once, or fully unloaded;
\* once both have returned, p is fully loaded or fully unloaded.
C5_LoadUnloadRaceConsistent ==
  ( /\ RoundOf("load", "unload")
    /\ round.begun[1].id = round.begun[2].id
    /\ Dynamic(round.begun[1].id)
    /\ NoDuplicates(round.w0, round.begun[1].id)
    /\ FullyLoaded(round.w0, round.begun[1].id)
         \/ FullyUnloaded(round.w0, round.begun[1].id) )
  => FullyLoaded(World, round.begun[1].id) \/ FullyUnloaded(World, round.begun[1].id)

\* How often the init hook ran in the calls of the round.
InitRuns == IF round.done = << >> THEN 0
            ELSE IF Len(round.done) = 1 THEN round.done[1].initRan
            ELSE round.done[1].initRan + round.done[2].initRan

\* C6: two unforced loadPlugin(p) calls are begun one during the other on
\* a READY plugin p; once both have returned, the init hook has run once at
\* most and every action, provider, evaluator, handler and the plugin
\* object itself is on the host exactly once.
C6_ConcurrentLoadsSerialized ==
  ( /\ RoundOf("load", "load")
    /\ round.begun[1].id = round.begun[2].id
    /\ ~round.begun[1].force /\ ~round.begun[2].force
    /\ round.w0.plugins[round.begun[1].id].status = "READY" )
  => LET plugin == PluginOf(round.begun[1].id)
         d == Catalog[plugin]
         entry(n) == [name |-> n, owner |-> plugin]
     IN /\ InitRuns <= 1
        /\ \A a \in Range(d.actions) : Count(runtime.actions, entry(a)) = 1
        /\ \A a \in Range(d.providers) : Count(runtime.providers, entry(a)) = 1
        /\ \A a \in Range(d.evaluators) : Count(runtime.evaluators, entry(a)) = 1
        /\ \A e \in EventNames : \A h \in Declared(plugin, e) :
             Count(runtime.events[e], h) = 1
        /\ Count(runtime.plugins, plugin) = 1

\* A list as a bag: how often each entry occurs.
BagOf(list) == [ x \in Range(list) |-> Count(list, x) ]

\* The same plugin statuses, component sets and audit trails, and the same
\* host registries up to the order of the entries of a list.
SameOutcome(w1, w2) ==
  /\ w1.plugins = w2.plugins
  /\ w1.componentRegistry = w2.componentRegistry
  /\ BagOf(w1.runtime.actions) = BagOf(w2.runtime.actions)
  /\ BagOf(w1.runtime.providers) = BagOf(w2.runtime.providers)
  /\ BagOf(w1.runtime.evaluators) = BagOf(w2.runtime.evaluators)
  /\ \A e \in EventNames : BagOf(w1.runtime.events[e]) = BagOf(w2.runtime.events[e])
  /\ w1.runtime.services = w2.runtime.services
  /\ BagOf(w1.runtime.plugins) = BagOf(w2.runtime.plugins)

\* Two plugin objects with no action, provider or evaluator name and no
\* service type in common.
Disjoint(p, q) ==
  /\ Range(Catalog[p].actions) \cap Range(Catalog[q].actions) = {}
  /\ Range(Catalog[p].providers) \cap Range(Catalog[q].providers) = {}
  /\ Range(Catalog[p].evaluators) \cap Range(Catalog[q].evaluators) = {}
  /\ Range(Catalog[p].services) \cap Range(Catalog[q].services) = {}

\* The round was two calls on two plugins with disjoint component names.
DisjointRound ==
  /\ round.phase = "over" /\ Len(round.begun) = 2
  /\ round.begun[1].id # round.begun[2].id
  /\ Disjoint(PluginOf(round.begun[1].id), PluginOf(round.begun[2].id))

\* C7: a loadPlugin or unloadPlugin call on P and one on Q, P and Q distinct
\* with disjoint component names, begun one during the other: however their
\* segments interleave, once both have returned the statuses, component
\* sets, audit trails and host registries (up to the order within a host
\* list) are those of running the two calls one after the other, in one of
\* the two orders.
C7_DisjointPluginsIndependent ==
  DisjointRound =>
    LET f1 == round.begun[1]
        f2 == round.begun[2]
    IN \/ SameOutcome(World, RunCall(RunCall(round.w0, f1).w, f2).w)
       \/ SameOutcome(World, RunCall(RunCall(round.w0, f2).w, f1).w)

\* Such a round in which both calls changed their plugin and the call begun
\* second returned first.
C7_Witness ==
  /\ DisjointRound
  /\ round.done[1].id = round.begun[2].id
  /\ \A i \in 1..2 : round.done[i].res = "ok" /\ ~round.done[i].noop
  /\ { round.done[1].op, round.done[2].op } = { "load", "unload" }

\* C8: in every state where p is LOADED, as it is right after loadPlugin(p),
\* an unforced loadPlugin(p) returns without error as a no-op: the status
\* stays LOADED, the host registries, the records and the audit trails are
\* unchanged, the init hook does not run and no lifecycle event is emitted,
\* whatever the plugin or the host would have done in a real load.
C8_SecondLoadIsNoOp ==
  \A id \in Records :
    plugins[id].status = "LOADED" =>
      \A plan \in LoadPlans(PluginOf(id)) :
        LET pre == Tick(World)
            r == loadPlugin(pre, id, FALSE, plan)
        IN /\ r.f.res = "ok" /\ r.f.noop
           /\ r.w = pre
           /\ r.f.emitted = << >>
           /\ r.f.initRan = 0

\* A plugin registered after construction is LOADED, with components on the
\* host and in the audit trail.
C8_Witness ==
  \E id \in Records :
    /\ Dynamic(id) /\ plugins[id].status = "LOADED"
    /\ plugins[id].components.actions # {}
    /\ componentRegistry[id] # << >>

\* C9 as stated: unloadPlugin of an original plugin always fails with
\* ProtectedPlugin, however many loads (forced, failed) have run on it.
C9_OriginalUnloadAlwaysFails ==
  \A n \in originalPlugins :
    unloadPlugin(Tick(World), createUniqueUuid(n), NoFault).f.res = "ProtectedPlugin"

\* C9 as amended: unloadPlugin of an original plugin never unloads it and
\* changes nothing, stops no service and emits no event; it fails with
\* ProtectedPlugin whenever the plugin is LOADED, also after forced loads,
\* and returns without error, as a no-op, when a failed forced load has left
\* the plugin in ERROR.
C9_OriginalNeverUnloaded ==
  \A n \in originalPlugins : \A plan \in UnloadPlans :
    LET id == createUniqueUuid(n)
        pre == Tick(World)
        r == unloadPlugin(pre, id, plan)
    IN /\ r.w = pre
       /\ r.f.emitted = << >> /\ r.f.stops = << >>
       /\ plugins[id].status \in {"LOADED", "ERROR"}
       /\ plugins[id].status = "LOADED" => r.f.res = "ProtectedPlugin"
       /\ plugins[id].status = "ERROR" => r.f.res = "ok" /\ r.f.noop

\* An original plugin is LOADED after a forced load has run on it again.
C9_Witness ==
  \E n \in originalPlugins :
    /\ plugins[createUniqueUuid(n)].status = "LOADED"
    /\ Count(runtime.plugins, n) > 1

\* C10: two loaded plugins have each registered a handler for the same
\* event; a successful unloadPlugin of one of them leaves the other's
\* handler on the host event bus and in the other's eventHandlers map, takes
\* its own handlers off that event and empties its own eventHandlers map.
C10_OnlyOwnHandlersRemoved ==
  \A id \in Records, other \in Records, e \in EventNames :
    ( /\ other # id
      /\ plugins[id].status = "LOADED" /\ plugins[other].status = "LOADED"
      /\ Declared(PluginOf(id), e) # {} /\ Declared(PluginOf(other), e) # {}
      /\ Declared(PluginOf(id), e) \subseteq Range(runtime.events[e])
      /\ Declared(PluginOf(other), e) \subseteq Range(runtime.events[e]) )
    => LET r == unloadPlugin(Tick(World), id, NoFault)
       IN /\ r.f.res = "ok"
          /\ Declared(PluginOf(other), e) \subseteq Range(r.w.runtime.events[e])
          /\ r.w.plugins[other].components.eventHandlers
               = plugins[other].components.eventHandlers
          /\ Declared(PluginOf(other), e)
               \subseteq r.w.plugins[other].components.eventHandlers[e]
          /\ Declared(PluginOf(id), e) \cap Range(r.w.runtime.events[e]) = {}
          /\ DOMAIN r.w.plugins[id].components.eventHandlers = {}

\* One of two plugins that listen to the same event has been unloaded; the
\* other is LOADED and its handler is on the host event bus.
C10_Witness ==
  \E id \in Records, other \in Records, e \in EventNames :
    /\ other # id
    /\ plugins[id].status = "UNLOADED" /\ plugins[other].status = "LOADED"
    /\ Declared(PluginOf(id), e) # {} /\ Declared(PluginOf(other), e) # {}
    /\ Declared(PluginOf(other), e) \subseteq Range(runtime.events[e])

\* C11: loadPlugin without force on a record whose status is neither READY
\* nor UNLOADED nor LOADED fails with InvalidState and its message names
\* that status; loadPlugin with force gets past the status test from every
\* status and, when nothing fails, ends with the plugin LOADED.
C11_InvalidStateUnlessForced ==
  \A id \in Records :
    LET pre == Tick(World)
        status == plugins[id].status
        unforced == loadPlugin(pre, id, FALSE, NoFault)
        forced == loadPlugin(pre, id, TRUE, NoFault)
    IN /\ status \notin {"READY", "UNLOADED", "LOADED"} =>
            /\ unforced.f.res = "InvalidState"
            /\ unforced.f.err = NotReady(status)
            /\ unforced.f.emitted = << >>
       /\ status \in {"READY", "UNLOADED", "LOADED"} => unforced.f.res = "ok"
       /\ forced.f.res = "ok" /\ ~forced.f.noop
       /\ forced.f.emitted = << "plugin:building", "plugin:loaded" >>
       /\ forced.w.plugins[id].status = "LOADED"

\* A plugin registered after construction is in ERROR.
C11_Witness ==
  \E id \in Records : Dynamic(id) /\ plugins[id].status = "ERROR"

\* The world as a call finds it, and the same world after the record id has
\* lost its plugin instance (updatePluginState is a public method).
WorldsFor(id) ==
  { Tick(World),
    [Tick(World) EXCEPT !.plugins = updatePluginState(@, id, [plugin |-> None])] }

\* C12: a loadPlugin call that is rejected with NotFound, InvalidState or
\* MissingInstance and an unloadPlugin call that is rejected with NotFound
\* or ProtectedPlugin return before their first await and change nothing:
\* records, audit trails and host registries are as before, the init hook
\* has not run, no service was stopped and no lifecycle event was emitted.
\* An unknown id is rejected with NotFound by both, and a record without
\* plugin instance with MissingInstance by every load that gets past the
\* status tests.
C12_RejectedCallsChangeNothing ==
  \A id \in CallIds : \A pre \in WorldsFor(id) :
    /\ \A force \in BOOLEAN : \A plan \in UNION { LoadPlans(n) : n \in PluginNames } :
         LET r == Segment(pre, NewFrame("load", id, force, plan))
         IN /\ r.f.res \in {"NotFound", "InvalidState", "MissingInstance"} =>
                 /\ r.f.pc = "done"
                 /\ r.w = pre
                 /\ r.f.emitted = << >> /\ r.f.initRan = 0 /\ r.f.stops = << >>
            /\ id = UnknownId => r.f.res = "NotFound"
            /\ ( /\ id # UnknownId /\ pre.plugins[id].plugin = None
                 /\ force \/ pre.plugins[id].status \in {"READY", "UNLOADED"} )
               => r.f.res = "MissingInstance"
    /\ \A plan \in UnloadPlans :
         LET r == Segment(pre, NewFrame("unload", id, FALSE, plan))
         IN /\ r.f.res \in {"NotFound", "ProtectedPlugin"} =>
                 /\ r.f.pc = "done"
                 /\ r.w = pre
                 /\ r.f.emitted = << >> /\ r.f.initRan = 0 /\ r.f.stops = << >>
            /\ id = UnknownId => r.f.res = "NotFound"

\* A state where each of the rejections happens: a record in ERROR refuses
\* an unforced load, an original plugin is LOADED and refuses the unload,
\* and plugins registered after construction hold components on the host.
C12_Witness ==
  /\ \E id \in Records :
       /\ Dynamic(id)
       /\ loadPlugin(Tick(World), id, FALSE, NoFault).f.res = "InvalidState"
  /\ \E n \in originalPlugins :
       unloadPlugin(Tick(World), createUniqueUuid(n), NoFault).f.res = "ProtectedPlugin"
  /\ \E id \in Records : Dynamic(id) /\ plugins[id].status = "LOADED"

\* C13 as stated: a plugin in ERROR recovers when loadPlugin is retried and
\* nothing fails in the retry: it ends LOADED.
C13_RetryRecovers ==
  \A id \in Records : \A force \in BOOLEAN :
    plugins[id].status = "ERROR" =>
      loadPlugin(Tick(World), id, force, NoFault).w.plugins[id].status = "LOADED"

\* C13 as amended: no status is terminal, since for every record some call
\* changes its status; a load that fails leaves a READY or UNLOADED plugin
\* in ERROR, and so does an unload of a LOADED plugin whose unregisterEvent
\* throws; from ERROR a forced loadPlugin in which nothing fails ends in
\* LOADED with the error cleared, while an unforced retry is rejected with
\* InvalidState and leaves the plugin in ERROR.
C13_ErrorRecoverableByForcedLoad ==
  \A id \in Records :
    LET pre == Tick(World)
        status == plugins[id].status
        after(r) == r.w.plugins[id].status
    IN /\ \/ \E force \in BOOLEAN : \E plan \in LoadPlans(PluginOf(id)) :
               after(loadPlugin(pre, id, force, plan)) # status
          \/ \E plan \in UnloadPlans : after(unloadPlugin(pre, id, plan)) # status
       /\ status \in {"READY", "UNLOADED"} =>
            \E plan \in LoadPlans(PluginOf(id)) :
              LET r == loadPlugin(pre, id, FALSE, plan)
              IN r.f.res = "raised" /\ after(r) = "ERROR"
       /\ ( /\ status = "LOADED" /\ Dynamic(id)
            /\ HandlerPairs(plugins[id].components.eventHandlers) # {} ) =>
            LET r == unloadPlugin(pre, id, [NoFault EXCEPT !.unregThrows = TRUE])
            IN r.f.res = "raised" /\ after(r) = "ERROR"
       /\ status = "ERROR" =>
            /\ LET r == loadPlugin(pre, id, TRUE, NoFault)
               IN /\ r.f.res = "ok" /\ after(r) = "LOADED"
                  /\ r.w.plugins[id].error = None
            /\ LET r == loadPlugin(pre, id, FALSE, NoFault)
               IN /\ r.f.res = "InvalidState" /\ after(r) = "ERROR"

\* A plugin is in ERROR after an unload that failed.
C13_Witness ==
  \E id \in Records :
    plugins[id].status = "ERROR" /\ plugins[id].error = "unregister failed"

\* C14: a loadPlugin call that gets past the guards and in which the init
\* hook throws, or the host throws in the registration of an action, a
\* provider, an evaluator or an event handler, leaves the record in ERROR
\* with the thrown message as its error, never makes the LOADED update
\* (loadedAt is as before, plugin:loaded is not emitted), emits
\* plugin:error and rethrows what was thrown.
C14_FailedLoadEndsInError ==
  \A id \in Records : \A force \in BOOLEAN :
    \A plan \in { q \in LoadPlans(PluginOf(id)) : q.initThrows \/ q.regThrowAt # 0 } :
      LET pre == Tick(World)
          r == loadPlugin(pre, id, force, plan)
      IN Charged(r.f) =>
           /\ r.f.res = "raised"
           /\ r.f.err = IF plan.initThrows THEN "init failed" ELSE "register failed"
           /\ r.w.plugins[id].status = "ERROR"
           /\ r.w.plugins[id].error = r.f.err
           /\ r.w.plugins[id].loadedAt = plugins[id].loadedAt
           /\ r.f.emitted = << "plugin:building", "plugin:error" >>

\* A load has failed in a host register call after an earlier component of
\* the same plugin had been registered.
C14_Witness ==
  \E id \in Records :
    /\ plugins[id].status = "ERROR" /\ plugins[id].error = "register failed"
    /\ componentRegistry[id] # << >>

\* C15: unloadPlugin on a record that is READY, UNLOADED or in ERROR
\* returns without error and changes nothing: the records, the audit trails
\* and the host registries are as before, no service is stopped and no
\* event is emitted, whatever the host would have thrown in a real unload.
C15_UnloadOfNotLoadedIsNoOp ==
  \A id \in Records : \A plan \in UnloadPlans :
    plugins[id].status # "LOADED" =>
      LET pre == Tick(World)
          r == unloadPlugin(pre, id, plan)
      IN /\ r.f.res = "ok" /\ r.f.noop
         /\ r.w = pre
         /\ r.f.emitted = << >> /\ r.f.stops = << >>

\* One record is UNLOADED and another is in ERROR with components still on
\* the host.
C15_Witness ==
  \E id \in Records, other \in Records :
    /\ plugins[id].status = "UNLOADED"
    /\ plugins[other].status = "ERROR"
    /\ plugins[other].components.actions # {}

\* C16: registerPlugin(P) on a name without record creates, under the id
\* derived from the name, a record READY with empty component sets, and
\* changes no other record and no host registry; on a name whose id has a
\* record already, an original plugin's or a registered plugin's in any
\* status, it fails and changes nothing.
C16_RegisterCreatesReadyOrFails ==
  \A plugin \in PluginNames :
    LET pre == Tick(World)
        id == createUniqueUuid(plugin)
        r == registerPlugin(pre, plugin)
    IN IF Has(plugins, id)
       THEN /\ r.f.res = "AlreadyRegistered"
            /\ r.w = pre
            /\ r.f.emitted = << >>
       ELSE /\ r.f.res = "ok" /\ r.f.id = id
            /\ r.w.plugins[id].status = "READY"
            /\ r.w.plugins[id].name = plugin /\ r.w.plugins[id].plugin = plugin
            /\ r.w.plugins[id].components = EmptyComponents
            /\ r.w.plugins[id].error = None
            /\ \A other \in PluginIds \ {id} : r.w.plugins[other] = pre.plugins[other]
            /\ r.w.runtime = pre.runtime
            /\ r.w.componentRegistry = pre.componentRegistry
            /\ r.f.emitted = << "plugin:ready" >>

\* A registered plugin has been loaded and unloaded, another is in ERROR,
\* and a third name has no record yet.
C16_Witness ==
  /\ \E id \in Records : Dynamic(id) /\ plugins[id].status = "UNLOADED"
  /\ \E id \in Records : Dynamic(id) /\ plugins[id].status = "ERROR"
  /\ \E n \in PluginNames : ~Has(plugins, createUniqueUuid(n))

\* The audit records of a plugin for one service type.
ServiceAudit(cr, id, t) ==
  SelectSeq(cr[id], LAMBDA a : a.componentType = "service" /\ a.componentName = t)

\* C17: a loadPlugin call that gets past the guards and in which the start
\* of one declared service fails ends without error with the plugin
\* LOADED; every other declared service is started, installed and tracked;
\* the failed type is not installed, tracked or audited by this load: the
\* host's entry for it, its membership in the component set and its audit
\* records are as before, and absent when the plugin had never been loaded.
C17_FailedServiceStartIsSkipped ==
  \A id \in Records : \A force \in BOOLEAN :
    \A t \in Range(Catalog[PluginOf(id)].services) :
      LET pre == Tick(World)
          plugin == PluginOf(id)
          r == loadPlugin(pre, id, force, [NoFault EXCEPT !.startFail = {t}])
          c == r.w.plugins[id].components
      IN Charged(r.f) =>
           /\ r.f.res = "ok" /\ r.w.plugins[id].status = "LOADED"
           /\ r.f.emitted = << "plugin:building", "plugin:loaded" >>
           /\ \A u \in Range(Catalog[plugin].services) \ {t} :
                /\ r.w.runtime.services[u] = plugin
                /\ u \in c.services
                /\ Len(ServiceAudit(r.w.componentRegistry, id, u))
                     = Len(ServiceAudit(componentRegistry, id, u)) + 1
           /\ r.w.runtime.services[t] = pre.runtime.services[t]
           /\ t \in c.services <=> t \in plugins[id].components.services
           /\ ServiceAudit(r.w.componentRegistry, id, t) = ServiceAudit(componentRegistry, id, t)
           /\ plugins[id].status = "READY" =>
                /\ r.w.runtime.services[t] # plugin
                /\ t \notin c.services
                /\ ServiceAudit(r.w.componentRegistry, id, t) = << >>

\* A plugin is LOADED with one of its declared services tracked and another
\* one neither tracked nor audited.
C17_Witness ==
  \E id \in Records :
    /\ plugins[id].status = "LOADED"
    /\ \E t, u \in Range(Catalog[PluginOf(id)].services) :
         /\ t \notin plugins[id].components.services
         /\ ServiceAudit(componentRegistry, id, t) = << >>
         /\ u \in plugins[id].components.services

\* The services an unload of the record id stops: the declared types that
\* are not original and have an instance on the host.
Stoppable(id) ==
  { t \in OwnServices(PluginOf(id)) : runtime.services[t] # None }

\* C18: an unloadPlugin of a loaded plugin in which every service.stop()
\* throws still calls stop on each service it has to stop, removes each
\* from the host service table and from the component set, goes on to
\* take the plugin off the active-plugins list and to delete the audit
\* trail, and ends without error with the plugin UNLOADED.
C18_StopFailureDoesNotAbortUnload ==
  \A id \in Records :
    ( plugins[id].status = "LOADED" /\ Dynamic(id) /\ Stoppable(id) # {} ) =>
      LET pre == Tick(World)
          r == unloadPlugin(pre, id, [NoFault EXCEPT !.stopThrows = TRUE])
      IN /\ r.f.res = "ok" /\ ~r.f.noop
         /\ r.w.plugins[id].status = "UNLOADED"
         /\ r.w.plugins[id].error = plugins[id].error
         /\ Len(r.f.stops) = Cardinality(Stoppable(id))
         /\ \A t \in Stoppable(id) :
              /\ r.w.runtime.services[t] = None
              /\ t \notin r.w.plugins[id].components.services
         /\ Count(r.w.runtime.plugins, PluginOf(id))
              = IF Count(runtime.plugins, PluginOf(id)) = 0 THEN 0
                ELSE Count(runtime.plugins, PluginOf(id)) - 1
         /\ r.w.componentRegistry[id] = << >>
         /\ r.f.emitted = << "plugin:unloaded" >>

\* A loaded plugin has its own service instance installed and tracked, and
\* is among the active plugins with a non-empty audit trail.
C18_Witness ==
  \E id \in Records :
    /\ plugins[id].status = "LOADED" /\ Dynamic(id)
    /\ \E t \in Stoppable(id) :
         runtime.services[t] = PluginOf(id) /\ t \in plugins[id].components.services
    /\ Count(runtime.plugins, PluginOf(id)) = 1
    /\ componentRegistry[id] # << >>

\* The place of a component type in the fixed order.
Rank(kind) ==
  CASE kind = "action" -> 1 [] kind = "provider" -> 2 [] kind = "evaluator" -> 3
    [] kind \in {"eventKey", "eventHandler"} -> 4 [] kind = "service" -> 5

\* How many entries of a host list carry the name n.
CountName(list, n) == Cardinality({ i \in 1..Len(list) : list[i].name = n })

\* How often the registration item it of the plugin is on the host in w.
OnHost(w, plugin, it) ==
  CASE it.kind = "action" -> Count(w.runtime.actions, [name |-> it.name, owner |-> plugin])
    [] it.kind = "provider" -> Count(w.runtime.providers, [name |-> it.name, owner |-> plugin])
    [] it.kind = "evaluator" ->
         Count(w.runtime.evaluators, [name |-> it.name, owner |-> plugin])
    [] it.kind = "eventHandler" -> Count(w.runtime.events[it.name], it.handler)
    [] it.kind = "eventKey" -> 0
    [] it.kind = "service" -> IF w.runtime.services[it.name] = plugin THEN 1 ELSE 0

\* The load half of C19, for the call that is suspended in r after having
\* begun in pre: the items before the awaited one are registered, the later
\* ones are not, and the plugin is not yet among the active plugins; once
\* registration has returned everything is registered and the plugin has
\* been added.
LoadInOrder(pre, r) ==
  LET plugin == r.f.plugin
      items == RegItems(plugin)
      added(j) == OnHost(r.w, plugin, items[j]) - OnHost(pre, plugin, items[j])
      listed == Count(r.w.runtime.plugins, plugin) - Count(pre.runtime.plugins, plugin)
  IN /\ \A i, j \in 1..Len(items) : i < j => Rank(items[i].kind) <= Rank(items[j].kind)
     /\ r.f.pc \in {"init", "register"} =>
          listed = 0 /\ \A j \in 1..Len(items) : added(j) = 0
     /\ r.f.pc = "regResume" =>
          /\ listed = 0
          /\ \A j \in 1..Len(items) :
               /\ ( j < r.f.k /\ items[j].kind \notin {"eventKey", "service"} )
                    => added(j) = 1
               /\ ( j < r.f.k /\ items[j].kind = "service" ) => OnHost(r.w, plugin, items[j]) = 1
               /\ ( j = r.f.k /\ items[j].kind # "service" ) => added(j) = 1
               /\ ( j = r.f.k /\ items[j].kind = "service" ) =>
                    r.w.runtime.services[items[j].name] = pre.runtime.services[items[j].name]
               /\ j > r.f.k => added(j) = 0
     /\ r.f.pc \in {"end", "done"} =>
          /\ listed = 1
          /\ \A j \in 1..Len(items) :
               /\ items[j].kind \notin {"eventKey", "service"} => added(j) = 1
               /\ items[j].kind = "service" => OnHost(r.w, plugin, items[j]) = 1

\* The unload half of C19, for the unload of the record id that is
\* suspended in r after having begun in pre: while a service is being
\* stopped, the actions, providers, evaluators and handlers are off the
\* host, the services before it are deleted, those after it are not, and
\* the plugin is still among the active plugins with its audit trail; once
\* unregistration has returned the plugin has been taken off the list.
UnloadInOrder(pre, r, id) ==
  LET plugin == pre.plugins[id].plugin
      services == Catalog[plugin].services
      gone(list0, list1, names) ==
        \A n \in names : CountName(list0, n) > 0 => CountName(list1, n) = CountName(list0, n) - 1
      listed == Count(pre.runtime.plugins, plugin) - Count(r.w.runtime.plugins, plugin)
  IN /\ r.f.pc \in {"svcResume", "end", "done"} =>
          /\ gone(pre.runtime.actions, r.w.runtime.actions, OwnActions(plugin))
          /\ gone(pre.runtime.providers, r.w.runtime.providers, OwnProviders(plugin))
          /\ gone(pre.runtime.evaluators, r.w.runtime.evaluators, OwnEvaluators(plugin))
          /\ \A p \in HandlerPairs(pre.plugins[id].components.eventHandlers) :
               Count(r.w.runtime.events[p[1]], p[2]) = 0
     /\ r.f.pc = "svcResume" =>
          /\ listed = 0
          /\ r.w.componentRegistry[id] = pre.componentRegistry[id]
          /\ \A j \in 1..Len(services) :
               /\ ( j < r.f.k /\ services[j] \notin originalServices )
                    => r.w.runtime.services[services[j]] = None
               /\ j >= r.f.k
                    => r.w.runtime.services[services[j]] = pre.runtime.services[services[j]]
     /\ r.f.pc \in {"end", "done"} =>
          /\ listed = IF Count(pre.runtime.plugins, plugin) = 0 THEN 0 ELSE 1
          /\ r.w.componentRegistry[id] = << >>
          /\ \A t \in OwnServices(plugin) : r.w.runtime.services[t] = None

\* LoadInOrder or UnloadInOrder at the await the call is suspended at in r
\* and at every later one, up to its return.
RECURSIVE InOrderFrom(_, _, _)
InOrderFrom(pre, r, id) ==
  /\ IF r.f.op = "load"
     THEN Charged(r.f) => LoadInOrder(pre, r)
     ELSE UnloadInOrder(pre, r, id)
  /\ r.f.pc # "done" => InOrderFrom(pre, Segment(r.w, r.f), id)

\* C19: at every await of a loadPlugin call that got past the guards the
\* registrations made so far are a prefix of the fixed order actions,
\* providers, evaluators, event handlers, services, so that every action,
\* provider, evaluator and handler is registered when a service is being
\* started, and the plugin joins the active plugins after all of them; at
\* every await of an unloadPlugin call on a loaded plugin the actions,
\* providers, evaluators and handlers are off the host before the first
\* service is stopped and the plugin leaves the active plugins after the
\* last service; when unregisterEvent throws, the actions, providers and
\* evaluators are off the host already and no service has been touched.
C19_FixedComponentOrder ==
  \A id \in Records :
    LET pre == Tick(World)
        plugin == PluginOf(id)
    IN /\ \A force \in BOOLEAN :
            InOrderFrom(pre, Segment(pre, NewFrame("load", id, force, NoFault)), id)
       /\ ( plugins[id].status = "LOADED" /\ Dynamic(id) ) =>
            /\ InOrderFrom(pre, Segment(pre, NewFrame("unload", id, FALSE, NoFault)), id)
            /\ HandlerPairs(plugins[id].components.eventHandlers) # {} =>
                 LET r == unloadPlugin(pre, id, [NoFault EXCEPT !.unregThrows = TRUE])
                     gone(list0, list1, names) ==
                       \A a \in names : CountName(list0, a) > 0
                                          => CountName(list1, a) = CountName(list0, a) - 1
                 IN /\ gone(pre.runtime.actions, r.w.runtime.actions, OwnActions(plugin))
                    /\ gone(pre.runtime.providers, r.w.runtime.providers,
                            OwnProviders(plugin))
                    /\ gone(pre.runtime.evaluators, r.w.runtime.evaluators,
                            OwnEvaluators(plugin))
                    /\ r.w.runtime.services = pre.runtime.services
                    /\ r.w.runtime.plugins = pre.runtime.plugins

\* A plugin that declares actions, providers, evaluators, an event handler
\* and a service is LOADED with all of them on the host, and has been
\* loaded once.
C19_Witness ==
  \E id \in Records :
    /\ plugins[id].status = "LOADED" /\ Dynamic(id)
    /\ \A k \in {"action", "provider", "evaluator", "eventHandler", "service"} :
         \E j \in 1..Len(RegItems(PluginOf(id))) :
           /\ RegItems(PluginOf(id))[j].kind = k
           /\ OnHost(World, PluginOf(id), RegItems(PluginOf(id))[j]) = 1
    /\ Count(runtime.plugins, PluginOf(id)) = 1

\* C20: a catalog request never throws; when the fetch fails (fetch
\* rejects, the response is not ok, or its body is no JSON) it returns the
\* cached catalog if a successful fetch has filled the cache, however old
\* it is, and the empty catalog if the cache is empty; the cache itself is
\* left as it was.
C20_FailedFetchFallsBackToCache ==
  \A outcome \in FetchOutcomes :
    LET r == getAvailablePluginsFromRegistry(registryCache, clock, outcome)
    IN /\ ~r.raised
       /\ outcome.kind # "ok" =>
            /\ r.data = IF registryCache # NoCache THEN registryCache.data ELSE EmptyCatalog
            /\ r.cache = registryCache
            /\ r.fetched <=> ( \/ registryCache = NoCache
                               \/ clock - registryCache.timestamp >= CACHE_DURATION )

\* The cache holds a catalog with entries that is older than the cache
\* lifetime: the next request fetches.
C20_Witness ==
  /\ registryCache # NoCache
  /\ registryCache.data # EmptyCatalog
  /\ clock - registryCache.timestamp >= CACHE_DURATION

\* C21: while the cache is filled and younger than CACHE_DURATION (one
\* hour) a catalog request returns the cached catalog without fetching; a
\* fetch is attempted exactly when the cache is empty (never filled, or
\* reset) or its age has reached CACHE_DURATION; and a request changes the
\* cache only when its fetch succeeds, to the fetched catalog stamped with
\* the time of the request.
C21_FreshCacheServedWithoutFetch ==
  \A outcome \in FetchOutcomes :
    LET r == getAvailablePluginsFromRegistry(registryCache, clock, outcome)
        fresh == registryCache # NoCache /\ clock - registryCache.timestamp < CACHE_DURATION
    IN /\ fresh => ~r.fetched /\ r.data = registryCache.data /\ r.cache = registryCache
       /\ ~fresh => r.fetched
       /\ r.cache # registryCache =>
            /\ r.fetched /\ outcome.kind = "ok"
            /\ r.cache = [data |-> outcome.data, timestamp |-> clock]
       /\ (r.fetched /\ outcome.kind = "ok") =>
            r.cache = [data |-> outcome.data, timestamp |-> clock] /\ r.data = outcome.data

\* The cache holds a catalog with entries, time has passed since it was
\* fetched, and it is still younger than the cache lifetime.
C21_Witness ==
  /\ registryCache # NoCache
  /\ registryCache.data # EmptyCatalog
  /\ clock > registryCache.timestamp
  /\ clock - registryCache.timestamp < CACHE_DURATION

\* C29: for every plugin name the install path is the plugin directory
\* joined with 'installed' and the name with each character outside
\* [a-zA-Z0-9_-] replaced by '_': the sanitized segment is as long as the
\* name, has no path separator and no dot in it, and the path is a direct
\* child of <plugin directory>/installed.
C29_InstallPathIsChildOfInstalled ==
  installPath.computed =>
    LET name == installPath.pluginName
        segment == Sanitize(name)
        parent == PathJoin(installPath.pluginDirectory \o << InstalledSegment >>)
    IN /\ Len(segment) = Len(name)
       /\ \A i \in 1..Len(segment) :
            /\ segment[i] \notin { "/", "\\", "." }
            /\ segment[i] = IF name[i] \in SafeChars THEN name[i] ELSE "_"
       /\ installPath.path = Append(parent, segment)
       /\ Len(installPath.path) = Len(parent) + 1
       /\ Dirname(installPath.path) = parent

\* ------------------------------------------------------ installer vocabulary
\* Every call of installPluginFromRegistry and of installFromLocalBundle
\* that can be made in the current state, and its outcome.
RegistryInstallCalls ==
  UNION { { [name |-> n, version |-> v, plan |-> p] :
              v \in InstallVersions, p \in InstallPlans(RegistrySteps[n], Published[n]) } :
          n \in RegistryNames }
BundleInstallCalls ==
  { [path |-> b, plan |-> p] : b \in BundlePaths, p \in InstallPlans(BundleSteps, { "plain" }) }

FromRegistry(call) ==
  installPluginFromRegistry(disk, registryCache, installedPlugins, clock,
                            call.name, call.version, call.plan)
FromBundle(call) ==
  installFromLocalBundle(disk, registryCache, installedPlugins, clock, call.path, call.plan)

\* The configuration variables a manifest can require, and the sets of
\* them that can be set in the environment of the process.
ConfigVars == { "API_KEY" }
Environments == SUBSET ConfigVars

\* The status the record of an installed artifact is to have in an
\* environment: needs_configuration exactly when a required variable is
\* not set.
StatusIn(env, info) ==
  IF \E i \in 1..Len(info.requiredEnvVars) : info.requiredEnvVars[i].name \notin env
  THEN "needs_configuration" ELSE "installed"

\* C22: after an install that succeeds, by whichever strategy, the status
\* of the installed record is needs_configuration if a required variable
\* declared by the manifest is unset, and installed otherwise (so installed
\* when the manifest requires nothing).
C22_StatusFollowsConfiguration ==
  \A env \in Environments :
    /\ \A call \in RegistryInstallCalls :
         LET c == FromRegistry(call)
         IN c.res = "ok" =>
              c.installed[call.name].status = StatusIn(env, c.installed[call.name])
    /\ \A call \in BundleInstallCalls :
         LET c == FromBundle(call)
         IN c.res = "ok" =>
              LET key == parsePluginMetadata(disk, call.path).name
              IN c.installed[key].status = StatusIn(env, c.installed[key])

\* Every loadInstalledPlugin call that can be made in the current state.
LoadInstalledCalls ==
  { [name |-> n, plan |-> p] :
      n \in InstallNames, p \in UNION { LoadPlans(m) : m \in DynamicPluginNames } }
LoadInstalled(call) ==
  loadInstalledPlugin(World, installedPlugins, disk, call.name, call.plan)

\* C23: loadInstalledPlugin on a record in status needs_configuration
\* fails with ConfigurationRequired and changes nothing: no plugin record
\* is registered, nothing of the module reaches the host, and the installed
\* record keeps status needs_configuration; on a name without an installed
\* record it fails and changes nothing.
C23_UnconfiguredIsNotLoaded ==
  \A call \in LoadInstalledCalls :
    LET r == LoadInstalled(call)
        status == installedPlugins[call.name].status
    IN /\ status = "needs_configuration" =>
            /\ r.res = "raised" /\ r.err = ConfigurationRequired(call.name)
            /\ r.w = World
            /\ r.installed = installedPlugins
            /\ r.installed[call.name].status = "needs_configuration"
       /\ status = "absent" =>
            /\ r.res = "raised" /\ r.err = NotInstalled(call.name)
            /\ r.w = World
            /\ r.installed = installedPlugins

\* A record is in status needs_configuration, the module at its path
\* exports a plugin that is not registered yet, and another installed
\* plugin has been loaded.
C23_Witness ==
  \E n \in InstallNames :
    /\ installedPlugins[n].status = "needs_configuration"
    /\ loadPluginModule(disk, installedPlugins[n].path) # None
    /\ ~Has(plugins, createUniqueUuid(loadPluginModule(disk, installedPlugins[n].path)))
    /\ \E m \in InstallNames : installedPlugins[m].status = "loaded"

\* The catalog a registry-driven install works with: the cache or the
\* fetch of its call.
CatalogOf(call) == getLocalRegistryIndex(registryCache, clock, call.plan.fetch).data

\* C24: a registry-driven install takes its strategy from the catalog
\* entry alone: the package manager when the entry has a package
\* reference (also when it has a repository reference too), else the
\* repository when it has a repository reference, else it fails with 'no
\* installation method available'; for a name the catalog does not have it
\* fails with 'not found in registry'; in both failures no external
\* command is run and the installed-plugin table is left as it was.
C24_StrategyFromCatalogEntry ==
  \A call \in RegistryInstallCalls :
    call.plan.failAt \notin { "ensureParent", "ensureTarget", "ensureTemp" } =>
      LET c == FromRegistry(call)
          catalog == CatalogOf(call)
      IN IF call.name \notin DOMAIN catalog
         THEN /\ c.res = NotInRegistry(call.name)
              /\ c.cmds = << >>
              /\ c.installed = installedPlugins
         ELSE IF catalog[call.name].npm
         THEN c.cmds = << "npmInstall" >>
         ELSE IF catalog[call.name].git
         THEN /\ c.cmds # << >> /\ c.cmds[1] = "gitClone"
              /\ \A i \in 1..Len(c.cmds) : c.cmds[i] # "npmInstall"
         ELSE /\ c.res = NoInstallMethod(call.name)
              /\ c.cmds = << >>
              /\ c.installed = installedPlugins

\* C25: in the source-repository strategy, once the temporary directory
\* has been created it is gone from the disk when the install call returns
\* or fails: when clone, checkout, dependency install or copy failed, and
\* when all of them succeeded.
C25_TempDirAlwaysRemoved ==
  \A call \in RegistryInstallCalls :
    LET c == FromRegistry(call)
    IN ( /\ c.temp # << >>
         /\ c.res # Pending
         /\ call.plan.failAt \in { "none", "gitClone", "gitCheckout", "depInstall", "copy" } )
       => /\ ~Exists(c.disk, c.temp)
          /\ \A path \in DOMAIN c.disk \ DOMAIN disk :
               path \in { getPluginInstallPath(pluginManagerConfig.pluginDirectory,
                                               Spelling[call.name]),
                          Dirname(getPluginInstallPath(pluginManagerConfig.pluginDirectory,
                                                       Spelling[call.name])) }

\* A plugin has been installed from its repository: the artifact is in
\* its install directory, the record is stored, and no temporary directory
\* is left.
C25_Witness ==
  LET pluginDir == getPluginInstallPath(pluginManagerConfig.pluginDirectory,
                                        Spelling["git-example"])
  IN /\ installedPlugins["git-example"].status = "installed"
     /\ Exists(disk, pluginDir) /\ disk[pluginDir] = "plain"
     /\ ~Exists(disk, PathJoin(pluginDir \o << << ".", "." >>, TempSegment(clock) >>))
     /\ pending = {}

\* C26: every install call is bounded by the configured timeout: a call
\* one of whose external commands never completes does not wait for it
\* for ever but ends, reported to the caller as failed, and the temporary
\* directory it created is removed.
C26_InstallBoundedByTimeout ==
  /\ \A call \in RegistryInstallCalls :
       LET c == FromRegistry(call)
       IN (call.plan.how = "hangs" /\ call.plan.failAt \in Range(c.cmds)) =>
            /\ c.res \notin { Pending, "ok" }
            /\ c.temp # << >> => ~Exists(c.disk, c.temp)
  /\ \A call \in BundleInstallCalls :
       LET c == FromBundle(call)
       IN (call.plan.how = "hangs" /\ call.plan.failAt \in Range(c.cmds)) =>
            c.res \notin { Pending, "ok" }

\* C27: installFromLocalBundle fails with BundleNotFound when the path
\* does not exist and with UnsupportedBundleFormat when it exists and is
\* no directory; in both cases nothing is copied, no dependency install is
\* run and the installed-plugin table is unchanged.
C27_BadBundleRejected ==
  \A call \in BundleInstallCalls :
    LET c == FromBundle(call)
        rejected == /\ c.disk = disk
                    /\ c.cmds = << >>
                    /\ c.installed = installedPlugins
    IN /\ ~Exists(disk, call.path) => c.res = BundleNotFound /\ rejected
       /\ (Exists(disk, call.path) /\ disk[call.path] = "file") =>
            c.res = UnsupportedBundleFormat /\ rejected

\* A directory bundle has been installed; a compressed bundle is on the
\* disk and another bundle path does not exist.
C27_Witness ==
  /\ installedPlugins["local-example"].status = "installed"
  /\ \E path \in BundlePaths : Exists(disk, path) /\ disk[path] = "file"
  /\ \E path \in BundlePaths : ~Exists(disk, path)

\* C30: installation and module-loading errors reach the caller as they
\* are: when an external install step, the manifest read or the import of
\* the plugin's entry point fails with an error, the public operation
\* (installPluginFromRegistry, installFromLocalBundle, loadInstalledPlugin)
\* fails with that error, message preserved.
C30_ErrorsPropagateVerbatim ==
  /\ \A call \in RegistryInstallCalls :
       LET c == FromRegistry(call)
       IN /\ (call.plan.how = "throws" /\ call.plan.failAt \in Range(c.cmds)) =>
               c.res = ErrorOf(call.plan.failAt)
          /\ c.res \notin { "ok", Pending } =>
               c.res \in { ErrorOf(call.plan.failAt), ReadJsonError,
                           NotInRegistry(call.name), NoInstallMethod(call.name) }
  /\ \A call \in BundleInstallCalls :
       LET c == FromBundle(call)
       IN /\ (call.plan.how = "throws" /\ call.plan.failAt \in Range(c.cmds)) =>
               c.res = ErrorOf(call.plan.failAt)
          /\ (Exists(disk, call.path) /\ disk[call.path] # "file"
                /\ ~CanReadManifest(disk, call.path)) => c.res = ReadJsonError
  /\ \A call \in LoadInstalledCalls :
       LET r == LoadInstalled(call)
           failure == ModuleFailure(disk, installedPlugins[call.name].path)
       IN (LoadInstalledGuard(installedPlugins, call.name) = None /\ failure # None) =>
            r.res = "raised" /\ r.err = failure

\* The registrations a loadPlugin call of this plugin object completes under
\* a fault plan: none when the init hook throws, those before the host call
\* that throws, and no service whose start fails.
Performed(plugin, plan) ==
  LET items == RegItems(plugin)
      last == IF plan.initThrows THEN 0
              ELSE IF plan.regThrowAt # 0 THEN plan.regThrowAt - 1
              ELSE Len(items)
  IN SelectSeq(SubSeq(items, 1, last),
               LAMBDA it : /\ it.kind # "eventKey"
                           /\ ~(it.kind = "service" /\ it.name \in plan.startFail))

\* The audit records of these registrations for the record id.
AuditOf(id, items, now) ==
  [ i \in 1..Len(items) |->
      [ pluginId |-> id, componentType |-> items[i].kind,
        componentName |-> items[i].name, timestamp |-> now ] ]

ExportKeys == << "alpha", "default", "plugin" >>
ExportLists ==
  { SelectSeq([ i \in 1..Len(ExportKeys) |-> [key |-> ExportKeys[i], value |-> f[i]] ],
              LAMBDA e : e.value # None) :
      f \in [ 1..Len(ExportKeys) -> DOMAIN ExportTable \cup { None } ] }

\* C31: the module loader returns an exported value that has the plugin
\* shape (an object with a name and a capability): the default export when
\* it has the shape, otherwise the first export in key order that has it;
\* when no export has the shape, loadInstalledPlugin fails with
\* ModuleLoadFailed and registers no plugin record; when one has, the
\* record registered by a successful call is that of the returned plugin.
C31_FirstPluginShapedExport ==
  /\ \A exports \in ExportLists :
       LET found == PluginExport(exports)
           valid == { i \in 1..Len(exports) : isValidPlugin(exports[i].value) }
       IN /\ valid = {} <=> found = None
          /\ \A i \in valid :
               /\ exports[i].key = "default" => found = exports[i].value
               /\ ( /\ \A j \in valid : exports[j].key # "default"
                    /\ \A j \in valid : i <= j ) => found = exports[i].value
  /\ \A call \in LoadInstalledCalls :
       LET r == LoadInstalled(call)
           path == installedPlugins[call.name].path
       IN ( /\ LoadInstalledGuard(installedPlugins, call.name) = None
            /\ ModuleFailure(disk, path) = None )
          => LET found == PluginExport(ArtifactTable[disk[path]].exports)
             IN /\ found = None =>
                     /\ r.res = "raised" /\ r.err = ModuleLoadFailed
                     /\ r.w = World
                /\ found # None =>
                     /\ isValidPlugin(found)
                     /\ r.res = "ok" => r.id = createUniqueUuid(found)
                                        /\ ~Has(plugins, r.id) /\ Has(r.w.plugins, r.id)

\* An installed module that is imported without error exports no plugin
\* and its load has failed with ModuleLoadFailed, while a plugin found
\* under a key other than default has been loaded from another module.
C31_Witness ==
  /\ \E n \in InstallNames :
       /\ installedPlugins[n].status = "error"
       /\ installedPlugins[n].errorDetails = ModuleLoadFailed
       /\ ModuleFailure(disk, installedPlugins[n].path) = None
       /\ ArtifactTable[disk[installedPlugins[n].path]].exports # << >>
       /\ loadPluginModule(disk, installedPlugins[n].path) = None
  /\ \E n \in InstallNames :
       /\ installedPlugins[n].status = "loaded"
       /\ \A i \in 1..Len(ArtifactTable[disk[installedPlugins[n].path]].exports) :
            ArtifactTable[disk[installedPlugins[n].path]].exports[i].key # "default"
       /\ Has(plugins, createUniqueUuid(loadPluginModule(disk, installedPlugins[n].path)))

\* C32: an install call changes the installed records only when it
\* succeeds, and then sets the record of its key, replacing the one that was
\* there, and no other; loadInstalledPlugin past its guards sets the status
\* of the record to loaded when it succeeds, the plugin record of the id
\* it returns being LOADED, and to error with the message of the failure in
\* errorDetails when the module cannot be loaded, registerPlugin fails or
\* loadPlugin fails; it changes nothing else of the record and no other
\* record.
C32_InstalledRecordLifecycle ==
  /\ \A call \in RegistryInstallCalls :
       \E c \in { FromRegistry(call) } :
         IF c.res = "ok"
         THEN /\ c.installed[call.name].status \in { "installed", "needs_configuration" }
              /\ c.installed = [installedPlugins EXCEPT ![call.name] = c.installed[call.name]]
         ELSE c.installed = installedPlugins
  /\ \A call \in BundleInstallCalls :
       \E c \in { FromBundle(call) } :
         IF c.res = "ok"
         THEN \E key \in { parsePluginMetadata(disk, call.path).name } :
                /\ c.installed[key].status \in { "installed", "needs_configuration" }
                /\ c.installed = [installedPlugins EXCEPT ![key] = c.installed[key]]
         ELSE c.installed = installedPlugins
  /\ \A call \in LoadInstalledCalls :
       \E r \in { LoadInstalled(call) } :
         LoadInstalledGuard(installedPlugins, call.name) = None =>
           IF r.res = "ok"
           THEN /\ r.installed = [installedPlugins EXCEPT ![call.name].status = "loaded"]
                /\ r.w.plugins[r.id].status = "LOADED"
           ELSE /\ r.res = "raised" /\ r.err # None
                /\ r.installed = [installedPlugins EXCEPT ![call.name].status = "error",
                                                          ![call.name].errorDetails = r.err]

\* One installed record is loaded, one is in error because its plugin was
\* registered already and one because loadPlugin failed.
C32_Witness ==
  /\ \E n \in InstallNames : installedPlugins[n].status = "loaded"
  /\ \E n \in InstallNames :
       /\ installedPlugins[n].status = "error"
       /\ \E plugin \in PluginNames : installedPlugins[n].errorDetails = AlreadyRegistered(plugin)
  /\ \E n \in InstallNames :
       /\ installedPlugins[n].status = "error"
       /\ installedPlugins[n].errorDetails \in { "register failed", "init failed" }

\* C33: an unloadPlugin call on a loaded plugin P changes neither the
\* status nor the component set of any other record Q, and every action,
\* provider, evaluator and service that Q tracks and that was on the host
\* before the call is on the host after it.
C33_UnloadLeavesOthersAlone ==
  \A id \in Records :
    ( plugins[id].status = "LOADED" /\ Dynamic(id) ) =>
      \E r \in { unloadPlugin(Tick(World), id, NoFault) } :
        \A other \in Records \ { id } :
          LET c == plugins[other].components
          IN /\ r.w.plugins[other].status = plugins[other].status
             /\ r.w.plugins[other].components = c
             /\ c.actions \cap Names(runtime.actions) \subseteq Names(r.w.runtime.actions)
             /\ c.providers \cap Names(runtime.providers) \subseteq Names(r.w.runtime.providers)
             /\ c.evaluators \cap Names(runtime.evaluators)
                  \subseteq Names(r.w.runtime.evaluators)
             /\ \A t \in c.services :
                  runtime.services[t] # None => r.w.runtime.services[t] # None

\* C34: however often a loaded plugin has been loaded again with force,
\* after one unloadPlugin call that succeeds no non-original action,
\* provider or evaluator it registered, none of its handlers and none of its
\* non-original services is on the host, and the plugin is not in the list
\* of active plugins.
C34_ReloadsRevertedByOneUnload ==
  \A id \in Records :
    ( plugins[id].status = "LOADED" /\ Dynamic(id) ) =>
      \E r \in { unloadPlugin(Tick(World), id, NoFault) } :
        LET plugin == PluginOf(id)
            mine(list, names) ==
              { i \in 1..Len(list) : list[i].owner = plugin /\ list[i].name \in names }
        IN r.f.res = "ok" =>
             /\ mine(r.w.runtime.actions, OwnActions(plugin)) = {}
             /\ mine(r.w.runtime.providers, OwnProviders(plugin)) = {}
             /\ mine(r.w.runtime.evaluators, OwnEvaluators(plugin)) = {}
             /\ \A e \in EventNames :
                  Declared(plugin, e) \cap Range(r.w.runtime.events[e]) = {}
             /\ \A t \in OwnServices(plugin) : r.w.runtime.services[t] # plugin
             /\ plugin \notin Range(r.w.runtime.plugins)

\* The non-original components of the plugin of the record id that are on
\* the host in the world w: its entries in the three lists, its handlers,
\* the service types it holds.
OnHostOf(w, id) ==
  LET plugin == w.plugins[id].plugin
      mine(kind, list, names) ==
        { << kind, list[i].name >> :
            i \in { j \in 1..Len(list) : list[j].owner = plugin /\ list[j].name \in names } }
  IN mine("action", w.runtime.actions, OwnActions(plugin))
       \cup mine("provider", w.runtime.providers, OwnProviders(plugin))
       \cup mine("evaluator", w.runtime.evaluators, OwnEvaluators(plugin))
       \cup { << "eventHandler", h >> :
                h \in UNION { Declared(plugin, e) \cap Range(w.runtime.events[e]) :
                                e \in EventNames } }
       \cup { << "service", t >> : t \in { u \in OwnServices(plugin) :
                                           w.runtime.services[u] = plugin } }

\* C35: with no call in flight, a plugin whose status is ERROR, READY or
\* UNLOADED has none of its non-original components on the host, or an
\* unloadPlugin call on it leaves none there.
C35_FailedLoadLeavesNothing ==
  calls = << >> =>
    \A id \in Records :
      ( Dynamic(id) /\ plugins[id].status \in { "ERROR", "READY", "UNLOADED" } ) =>
        \/ OnHostOf(World, id) = {}
        \/ \E r \in { unloadPlugin(Tick(World), id, NoFault) } : OnHostOf(r.w, id) = {}

\* C36: with no call in flight, the error field of a plugin record is set
\* if and only if the status of the record is ERROR.
C36_ErrorFieldIffErrorStatus ==
  calls = << >> =>
    \A id \in Records : plugins[id].error # None <=> plugins[id].status = "ERROR"

\* The events a call has emitted so far fit the record of its plugin at an
\* await or at the return of the call, and so on to the end of the call:
\* plugin:building is out before the init hook has run, plugin:loaded only
\* with the record LOADED, plugin:error only with the record in ERROR and
\* without plugin:loaded, plugin:unloaded only with the record UNLOADED.
RECURSIVE EventsFollow(_, _)
EventsFollow(r, id) ==
  /\ r.f.initRan > 0 => r.f.emitted # << >> /\ r.f.emitted[1] = "plugin:building"
  /\ "plugin:loaded" \in Range(r.f.emitted) =>
       /\ StatusOf(r.w.plugins, id) = "LOADED"
       /\ "plugin:error" \notin Range(r.f.emitted)
  /\ "plugin:error" \in Range(r.f.emitted) => StatusOf(r.w.plugins, id) = "ERROR"
  /\ "plugin:unloaded" \in Range(r.f.emitted) => StatusOf(r.w.plugins, id) = "UNLOADED"
  /\ IF r.f.pc # "done" THEN EventsFollow(Segment(r.w, r.f), id)
     ELSE r.f.emitted =
            IF r.f.op = "load"
            THEN IF ~Charged(r.f) THEN << >>
                 ELSE IF r.f.res = "ok" THEN << "plugin:building", "plugin:loaded" >>
                 ELSE << "plugin:building", "plugin:error" >>
            ELSE IF r.f.res = "ok" /\ ~r.f.noop /\ r.f.plugin # None
                 THEN << "plugin:unloaded" >>
                 ELSE << >>

\* C37: the lifecycle events follow the transitions.  registerPlugin emits
\* plugin:ready once the record exists, and nothing when it fails; a
\* loadPlugin call past the guards emits plugin:building before the init
\* hook runs, then plugin:loaded once the record is LOADED, or plugin:error
\* once it is in ERROR and then no plugin:loaded; an unloadPlugin call that
\* unloads emits plugin:unloaded once the record is UNLOADED; calls that
\* are rejected or have nothing to do, and unloads that fail, emit nothing.
C37_EventsFollowTransitions ==
  /\ \A plugin \in PluginNames :
       \E r \in { registerPlugin(Tick(World), plugin) } :
         IF r.f.res = "ok"
         THEN r.f.emitted = << "plugin:ready" >> /\ Has(r.w.plugins, r.f.id)
         ELSE r.f.emitted = << >>
  /\ \A id \in CallIds :
       /\ \A force \in BOOLEAN : \A plan \in PlansForLoad(Tick(World), id, force) :
            EventsFollow(Segment(Tick(World), NewFrame("load", id, force, plan)), id)
       /\ \A plan \in PlansForUnload(Tick(World), id) :
            EventsFollow(Segment(Tick(World), NewFrame("unload", id, FALSE, plan)), id)

\* One plugin has been registered, loaded and unloaded and another one is
\* in ERROR after a load that failed: each of the events has been emitted.
C37_Witness ==
  /\ \E id \in Records :
       Dynamic(id) /\ plugins[id].status = "UNLOADED" /\ plugins[id].loadedAt # NoTime
  /\ \E id \in Records :
       plugins[id].status = "ERROR" /\ plugins[id].error \in { "register failed", "init failed" }

\* The progress reports of an install call, in the order the caller got
\* them.
ReportsOf(c) == SelectSeq(c.events, LAMBDA e : e.kind = "report")

\* The reports of a call carry a known phase and a percentage, the
\* percentage grows from each report to the next, and (complete, 100) is
\* reported exactly when the call succeeds, as the last thing the call does
\* and after it has stored the installed record.
ProgressInOrder(c) ==
  \E reports \in { ReportsOf(c) } :
     /\ \A i \in 1..Len(reports) :
          /\ reports[i].phase \in { "downloading", "extracting", "installing",
                                    "validating", "complete" }
          /\ reports[i].progress \in 0..100
          /\ reports[i].phase = "complete" <=> reports[i].progress = 100
          /\ i < Len(reports) => reports[i].progress < reports[i + 1].progress
     /\ c.res = "ok" <=> \E i \in 1..Len(reports) : reports[i].phase = "complete"
     /\ c.res = "ok" =>
          /\ c.events[Len(c.events)].kind = "report"
          /\ c.events[Len(c.events)].phase = "complete"
          /\ \E j \in 1..Len(c.events) : c.events[j].kind = "stored"

\* C38: in every install call, from the registry or from a local bundle,
\* whether it succeeds, fails or hangs, the progress reports carry a phase
\* of the five and a percentage in 0..100 that grows strictly from report to
\* report; (complete, 100) is reported exactly when the call succeeds and is
\* then the last report, made after the installed record was stored.
C38_ProgressReportsInOrder ==
  /\ \A call \in RegistryInstallCalls :
       \E c \in { FromRegistry(call) } : ProgressInOrder(c)
  /\ \A call \in BundleInstallCalls :
       \E c \in { FromBundle(call) } : ProgressInOrder(c)

\* Installs by npm, by git and from a bundle have succeeded, and a further
\* git install with a checkout and a bundle install that installs
\* dependencies can succeed, each with its full series of reports.
C38_Witness ==
  /\ installedPlugins["npm-example"] # NoInfo
  /\ installedPlugins["git-example"] # NoInfo
  /\ installedPlugins["local-example"] # NoInfo
  /\ \E call \in RegistryInstallCalls :
       /\ FromRegistry(call).res = "ok"
       /\ Len(ReportsOf(FromRegistry(call))) = 7
  /\ \E call \in BundleInstallCalls :
       /\ FromBundle(call).res = "ok"
       /\ Len(ReportsOf(FromBundle(call))) = 5

\* C39: when a plugin loaded by the manager declares a service of an
\* original type, the host's service table maps that type to the original
\* instance after the loadPlugin call, and still does after the unloadPlugin
\* call that follows; the original instance is not stopped.
C39_OriginalServiceSurvives ==
  \A id \in Records :
    ( Dynamic(id) /\ plugins[id].status \in { "READY", "UNLOADED" } ) =>
      \A t \in Range(Catalog[PluginOf(id)].services) \cap originalServices :
        runtime.services[t] = "host" =>
          \A plan \in PlansForLoad(Tick(World), id, FALSE) :
            \E r \in { loadPlugin(Tick(World), id, FALSE, plan) } :
              r.f.res = "ok" =>
                /\ r.w.runtime.services[t] = "host"
                /\ \E u \in { unloadPlugin(Tick(r.w), id, NoFault) } :
                     u.f.res = "ok" =>
                       /\ u.w.runtime.services[t] = "host"
                       /\ "host" \notin Range(u.f.stops)

\* C40: when the installed record of n has status loaded and the plugin of
\* its module is LOADED, a further loadInstalledPlugin(n) call does not
\* leave the installed record in status error while the plugin record is
\* still LOADED.
C40_LoadedRecordStaysLoaded ==
  \A n \in InstallNames :
    installedPlugins[n].status = "loaded" =>
      \E id \in { createUniqueUuid(loadPluginModule(disk, installedPlugins[n].path)) } :
        ( Has(plugins, id) /\ plugins[id].status = "LOADED" ) =>
          \A call \in { c \in LoadInstalledCalls : c.name = n } :
            \E r \in { LoadInstalled(call) } :
              ~ ( /\ r.installed[n].status = "error"
                  /\ r.w.plugins[id].status = "LOADED" )

====
